---- MODULE Spec2Model ----
(***************************************************************************)
(* A model of pExplore: the Score / PointScore order, the                  *)
(* ConstrainingSpecification state machine (evaluate / update_from), and   *)
(* the ParameterSearchRunner (push / worker _loop / pull) with the         *)
(* TaskManager history.                                                    *)
(*                                                                         *)
(* The module holds these specifications over one set of variables:        *)
(*   SpecScore      - the pure comparison operators, on drawn inputs       *)
(*   SpecCS         - a ConstrainingSpecification under evaluate /         *)
(*                    update_from                                          *)
(*   SpecRunner     - a ParameterSearchRunner with its worker threads      *)
(*   SpecRunnerFair - the same for one iteration, under fair scheduling    *)
(*   SpecChoose     - TaskManager::choose_runner_for on a runnable         *)
(*   SpecManager    - threads calling the TaskManager singleton            *)
(*   SpecExplore    - ShiftAndKeepBestHalfExploration::next_points_from    *)
(*   SpecTaskManager - one thread calling the history functions of the     *)
(*                    TaskManager                                          *)
(*   SpecConcurrency - TaskManager::set_concurrency                        *)
(*   SpecCopies     - Constraint objects, their copies and controllers     *)
(*   SpecSequential - a SequentialRunner under push / pull                 *)
(*   SpecRanking    - TaskExecutionRanking::operator< on drawn rankings    *)
(*   SpecGroups     - a ConstrainingSpecification of three constraints     *)
(*   SpecRunnable   - a TaskRunnable under set_constraints                 *)
(* Each specification keeps the variables of the others at rest.           *)
(*                                                                         *)
(* A double is modelled as an exact rational [n, d] with d > 0, in lowest  *)
(* terms; d = 0 stands for NaN (every ordered comparison with it is false, *)
(* and it is not equal to itself).                                         *)
(***************************************************************************)
EXTENDS Integers, Sequences, FiniteSets, TLC

VARIABLES
    \* ---- SpecScore: two drawn Scores, two drawn points, the results
    sa, sb, pa, pb, cmp,
    \* ---- SpecCS: a ConstrainingSpecification and the last call made on it
    constraints,        \* List<Constraint>: the immutable definitions
    states,             \* _constraint_states: the flags of each ConstraintState
    num_active,         \* _num_active_constraints (size_t, see SizeTDecrement)
    controllers,        \* the state of each constraint's robustness controller
    last,               \* the last call on the specification and its result
    ops,                \* number of calls made so far (bounded by MaxOps)
    \* ---- SpecRunner: a ParameterSearchRunner, its threads and its caller
    space,              \* the task's ranking space (its parameter-weight list)
    rpc,                \* where the calling thread stands in push / pull / ~Runner
    iter,               \* number of calls of push made so far
    npushed,            \* push: value of the loop index i
    active,             \* _active
    terminate,          \* _terminate
    points,             \* _points (std::queue)
    input_buffer,       \* _input_buffer (Buffer of capacity _concurrency)
    output_buffer,      \* _output_buffer (Buffer of capacity _concurrency)
    failures,           \* _failures
    last_used_input,    \* _last_used_input (Buffer of capacity 1)
    input_mutex,        \* _input_mutex: the worker holding it, or 0
    wpc,                \* where each worker thread stands in _loop
    wpkg,               \* each worker's local variable pkg
    best_rankings,      \* TaskManager::_best_rankings
    pulled,             \* how the last call of pull ended (cleared by the next push)
    \* ---- SpecChoose: TaskManager::choose_runner_for on a runnable
    choice,             \* the arguments of the last call and whether it threw
    runner,             \* the runner installed on the runnable
    \* ---- SpecManager: threads calling the TaskManager singleton
    calls,              \* the call each thread is in and how far it has got
    data_mutex,         \* _data_mutex: the thread holding it, or 0
    exploration,        \* _exploration
    \* ---- SpecExplore: ShiftAndKeepBestHalfExploration::next_points_from
    explored,           \* the generation drawn and the points returned for it
    \* ---- SpecTaskManager, SpecConcurrency: one thread calling the TaskManager
    manager,            \* _maximum_concurrency, _concurrency and the last call made
    \* ---- SpecCopies: Constraint objects and the controllers they point to
    copies,             \* the objects, the controllers allocated, the last call
    \* ---- SpecSequential: a SequentialRunner
    sequential,         \* _last_output and how the last push and pull ended
    \* ---- SpecRanking: TaskExecutionRanking::operator< on two rankings
    ranked              \* the two rankings and the value returned

scoreVars  == <<sa, sb, pa, pb, cmp>>
csVars     == <<constraints, states, num_active, controllers, last, ops>>
runnerVars == <<space, rpc, iter, npushed, active, terminate, points, input_buffer,
                output_buffer, failures, last_used_input, input_mutex, wpc, wpkg,
                best_rankings, pulled>>
\* the runner's own fields, without the history that the TaskManager keeps
runnerOwnVars == <<space, rpc, iter, npushed, active, terminate, points, input_buffer,
                   output_buffer, failures, last_used_input, input_mutex, wpc, wpkg,
                   pulled>>
\* the variables of the specifications of single calls
otherVars   == <<manager, copies, sequential, ranked>>
managerVars == <<choice, runner, calls, data_mutex, exploration, explored, manager,
                 copies, sequential, ranked>>
vars       == <<sa, sb, pa, pb, cmp, constraints, states, num_active, controllers, last, ops,
                space, rpc, iter, npushed, active, terminate, points, input_buffer,
                output_buffer, failures, last_used_input, input_mutex, wpc, wpkg,
                best_rankings, pulled, choice, runner, calls, data_mutex, exploration,
                explored, manager, copies, sequential, ranked>>

-----------------------------------------------------------------------------
(* Bounds of the model *)

\* constraint indices range over 0 .. MaxConstraints-1
MaxConstraints == 2
\* calls (evaluate / update_from) made on one ConstrainingSpecification
MaxOps == 3
\* _concurrency: the number of worker threads of the ParameterSearchRunner
Concurrency == 2
\* calls of push made on one runner
MaxIterations == 2
\* threads that call the TaskManager at the same time
MaxCallers == 2
\* entries of the TaskManager's history
MaxHistory == 2
\* ranking parameters take the values 0 .. MaxValue on the outputs
MaxValue == 1

-----------------------------------------------------------------------------
(* Doubles as exact rationals *)

RECURSIVE GCD(_, _)
GCD(a, b) == IF b = 0 THEN a ELSE GCD(b, a % b)

Abs(x) == IF x < 0 THEN -x ELSE x

\* the rational n/d (d # 0) in lowest terms with a positive denominator
Rat(n, d) ==
    LET g == GCD(Abs(n), Abs(d))
        s == IF d < 0 THEN -1 ELSE 1
    IN  [n |-> (s * n) \div g, d |-> (s * d) \div g]

NaN == [n |-> 0, d |-> 0]
IsNaN(x) == x.d = 0
Zero == [n |-> 0, d |-> 1]
OfInt(i) == [n |-> i, d |-> 1]

DAdd(x, y) == IF IsNaN(x) \/ IsNaN(y) THEN NaN ELSE Rat(x.n * y.d + y.n * x.d, x.d * y.d)
DSub(x, y) == IF IsNaN(x) \/ IsNaN(y) THEN NaN ELSE Rat(x.n * y.d - y.n * x.d, x.d * y.d)
DMul(x, y) == IF IsNaN(x) \/ IsNaN(y) THEN NaN ELSE Rat(x.n * y.n, x.d * y.d)
\* x / y; 0/0 is NaN (the model never divides a non-zero value by zero)
DDiv(x, y) == IF IsNaN(x) \/ IsNaN(y) \/ y.n = 0 THEN NaN ELSE Rat(x.n * y.d, x.d * y.n)
DAbs(x)    == IF IsNaN(x) THEN NaN ELSE [n |-> Abs(x.n), d |-> x.d]
\* operator< and operator== of double
DLess(x, y) == ~IsNaN(x) /\ ~IsNaN(y) /\ x.n * y.d < y.n * x.d
DEq(x, y)   == ~IsNaN(x) /\ ~IsNaN(y) /\ x.n * y.d = y.n * x.d

-----------------------------------------------------------------------------
(* Score and PointScore (score.hpp, score.cpp) *)

SetMin(S) == CHOOSE x \in S : \A y \in S : x <= y

\* Set<size_t>::operator< : std::set compares lexicographically, in ascending
\* element order
RECURSIVE SetLess(_, _)
SetLess(A, B) ==
    IF B = {} THEN FALSE
    ELSE IF A = {} THEN TRUE
    ELSE LET a == SetMin(A)
             b == SetMin(B)
         IN  IF a < b THEN TRUE
             ELSE IF b < a THEN FALSE
             ELSE SetLess(A \ {a}, B \ {b})

Score(successes, hard_failures, soft_failures, objective) ==
    [successes |-> successes, hard_failures |-> hard_failures,
     soft_failures |-> soft_failures, objective |-> objective]

\* a variant that compares the hard failures the wrong way round on the
\* first test only
ScoreLessHardSwapped(a, e) ==
    IF SetLess(a.hard_failures, e.hard_failures) THEN FALSE
    ELSE IF SetLess(e.hard_failures, a.hard_failures) THEN FALSE
    ELSE IF SetLess(a.soft_failures, e.soft_failures) THEN TRUE
    ELSE IF SetLess(e.soft_failures, a.soft_failures) THEN FALSE
    ELSE DLess(a.objective, e.objective)

\* ConstraintScore::operator<
ScoreLess(a, e) ==
    IF SetLess(a.hard_failures, e.hard_failures) THEN TRUE
    ELSE IF SetLess(e.hard_failures, a.hard_failures) THEN FALSE
    ELSE IF SetLess(a.soft_failures, e.soft_failures) THEN TRUE
    ELSE IF SetLess(e.soft_failures, a.soft_failures) THEN FALSE
    ELSE DLess(a.objective, e.objective)

\* ConstraintScore::operator==
ScoreEq(a, e) ==
    /\ a.successes = e.successes
    /\ a.hard_failures = e.hard_failures
    /\ a.soft_failures = e.soft_failures
    /\ DEq(a.objective, e.objective)

PointScore(p, score) == [point |-> p, score |-> score]

\* PointConstraintScore::operator< ; points are ordered as integers
PointScoreLess(a, e) ==
    IF ScoreEq(a.score, e.score) THEN a.point < e.point
    ELSE ScoreLess(a.score, e.score)

\* std::set<PointScore>::insert on a set kept as its ascending sequence: the
\* element is dropped when an equivalent one (neither less than the other) is
\* already there, and otherwise placed before the first element it is less than
SetInsert(s, x) ==
    IF \E i \in 1..Len(s) : ~PointScoreLess(s[i], x) /\ ~PointScoreLess(x, s[i])
    THEN s
    ELSE LET before == {i \in 1..Len(s) : PointScoreLess(s[i], x)}
             k == Cardinality(before)
         IN  SubSeq(s, 1, k) \o <<x>> \o SubSeq(s, k + 1, Len(s))


-----------------------------------------------------------------------------
(* ParameterSearchRunner as constructed (task_runner.tpl.hpp) *)

Workers == 1 .. Concurrency

NoPull == [kind |-> "none", output |-> <<>>, point |-> 0, drained |-> <<>>,
           rankings |-> <<>>]

\* ParameterSearchRunner::ParameterSearchRunner: empty buffers, no failures,
\* not active, not terminating, the threads created and not yet activated
RunnerConstructed ==
    /\ rpc = "idle" /\ iter = 0 /\ npushed = 0
    /\ active = FALSE /\ terminate = FALSE
    /\ points = <<>> /\ input_buffer = <<>> /\ output_buffer = <<>>
    /\ failures = 0 /\ last_used_input = <<>> /\ input_mutex = 0
    /\ wpc = [w \in Workers |-> "inactive"]
    /\ wpkg = [w \in Workers |-> <<>>]
    /\ best_rankings = <<>> /\ pulled = NoPull

RunnerRest == space = <<>> /\ RunnerConstructed

\* a runnable on which no runner has been chosen yet
NoChoice == [overload |-> 0]
NoRunner == [kind |-> "none"]

\* the threads that may call the TaskManager, none of which is in a call
Callers == 1 .. MaxCallers
NoCalls == [t \in Callers |-> [op |-> "none", pc |-> "idle", raced |-> FALSE]]

\* TaskManager::TaskManager()
ManagerConstructed ==
    /\ calls = NoCalls /\ data_mutex = 0 /\ exploration = "ShiftAndKeepBestHalf"

\* no call made by the single thread of SpecTaskManager and SpecConcurrency
NoManagerCall == [op |-> "none", value |-> 0, threw |-> FALSE, returned |-> <<>>]

\* no Constraint built, no SequentialRunner constructed, no rankings compared
NoCopies == [objects |-> <<>>, heap |-> <<>>, calls |-> 0]
NoSequential == [kind |-> "none"]
NoRanked == [kind |-> "none"]

OtherRest ==
    /\ manager = [maximum_concurrency |-> 1, concurrency |-> 1, last |-> NoManagerCall]
    /\ copies = NoCopies /\ sequential = NoSequential /\ ranked = NoRanked

\* no generation drawn
NoGeneration == [called |-> FALSE, rankings |-> <<>>, points |-> <<>>]

ManagerRest ==
    /\ choice = NoChoice /\ runner = NoRunner /\ ManagerConstructed
    /\ explored = NoGeneration
    /\ OtherRest

-----------------------------------------------------------------------------
(* SpecScore: the comparison operators applied to drawn Scores *)

Indices == 0 .. (MaxConstraints - 1)

\* objectives drawn: two ordered numbers and NaN
ObjectiveDomain == {OfInt(-1), OfInt(1), NaN}

\* the Scores drawn: every constraint index lies in at most one of the three
\* index sets, as in the Scores that evaluate builds
ScoreDomain ==
    {Score(s, h, f, o) : <<s, h, f, o>> \in
        {q \in (SUBSET Indices) \X (SUBSET Indices) \X (SUBSET Indices) \X ObjectiveDomain :
            q[1] \cap q[2] = {} /\ q[1] \cap q[3] = {} /\ q[2] \cap q[3] = {}}}

PointDomain == 0 .. 1

NoCmp == [phase |-> "drawn", lt |-> FALSE, gt |-> FALSE, eq |-> FALSE,
          plt |-> FALSE, pgt |-> FALSE, generation |-> <<>>]

ScoreRest == /\ sa = Score({}, {}, {}, Zero) /\ sb = Score({}, {}, {}, Zero)
             /\ pa = 0 /\ pb = 0 /\ cmp = NoCmp

\* a == b, a < b, b < a on the drawn Scores, and the same on the PointScores
\* built from them
Compare ==
    /\ cmp.phase = "drawn"
    /\ cmp' = [cmp EXCEPT !.phase = "compared",
                          !.lt = ScoreLess(sa, sb),
                          !.gt = ScoreLess(sb, sa),
                          !.eq = ScoreEq(sa, sb),
                          !.plt = PointScoreLess(PointScore(pa, sa), PointScore(pb, sb)),
                          !.pgt = PointScoreLess(PointScore(pb, sb), PointScore(pa, sa))]
    /\ UNCHANGED <<sa, sb, pa, pb>>
    /\ UNCHANGED csVars
    /\ UNCHANGED runnerVars /\ UNCHANGED managerVars

\* both PointScores inserted into an empty Set<PointScore>
InsertBoth ==
    /\ cmp.phase = "compared"
    /\ cmp' = [cmp EXCEPT !.phase = "inserted",
                          !.generation = SetInsert(SetInsert(<<>>, PointScore(pa, sa)),
                                                   PointScore(pb, sb))]
    /\ UNCHANGED <<sa, sb, pa, pb>>
    /\ UNCHANGED csVars
    /\ UNCHANGED runnerVars /\ UNCHANGED managerVars

-----------------------------------------------------------------------------
(* ConstrainingSpecification at rest (for the specifications that do not use it) *)

NoCall == [op |-> "none", failed |-> FALSE, io |-> [rob |-> <<>>, time |-> 0],
           score |-> Score({}, {}, {}, Zero), flagged |-> {}]

CSRest == /\ constraints = <<>> /\ states = <<>> /\ num_active = 0
          /\ controllers = <<>> /\ last = NoCall /\ ops = 0

InitScore ==
    /\ sa \in ScoreDomain /\ sb \in ScoreDomain
    /\ pa \in PointDomain /\ pb \in PointDomain
    /\ cmp = NoCmp
    /\ CSRest
    /\ RunnerRest
    /\ ManagerRest

NextScore == Compare \/ InsertBoth

SpecScore == InitScore /\ [][NextScore]_vars

-----------------------------------------------------------------------------
(* Claims on the Score and PointScore order, under SpecScore *)

Numeric(a) == ~IsNaN(a.objective)

\* the Scores differ in a field that operator< reads, the objectives being
\* two different numbers
DifferInOrderedField(a, b) ==
    \/ a.hard_failures # b.hard_failures
    \/ a.soft_failures # b.soft_failures
    \/ DLess(a.objective, b.objective)
    \/ DLess(b.objective, a.objective)

\* C8, as claimed: the Score order is a total order consistent with equality:
\* < is transitive and antisymmetric, a == b implies neither a < b nor b < a,
\* and two Scores (here with numeric objectives) that are not equal under ==
\* are comparable.
C8_TotalOrder ==
    (cmp.phase # "drawn" /\ Numeric(sa) /\ Numeric(sb)) =>
        /\ (cmp.lt => \A c \in ScoreDomain : ScoreLess(sb, c) => ScoreLess(sa, c))
        /\ ~(cmp.lt /\ cmp.gt)
        /\ (cmp.eq => ~cmp.lt /\ ~cmp.gt)
        /\ (~cmp.eq => cmp.lt \/ cmp.gt)

\* C8, amended: the Score order is a strict order consistent with equality:
\* < is transitive and asymmetric, a == b implies neither a < b nor b < a,
\* and two Scores are comparable exactly when they differ in hard_failures,
\* in soft_failures or in objective (two different numbers); Scores that
\* differ only in their successes are neither equal nor ordered.
C8_StrictOrderOnOrderedFields ==
    cmp.phase # "drawn" =>
        /\ (cmp.lt => \A c \in ScoreDomain : ScoreLess(sb, c) => ScoreLess(sa, c))
        /\ ~(cmp.lt /\ cmp.gt)
        /\ (cmp.eq => ~cmp.lt /\ ~cmp.gt)
        /\ (cmp.lt \/ cmp.gt) <=> DifferInOrderedField(sa, sb)

\* C8, witness: two compared Scores that differ only in their successes, so
\* that they are neither equal nor ordered, and a third one above both
C8_Witness ==
    /\ cmp.phase = "compared"
    /\ Numeric(sa) /\ Numeric(sb)
    /\ sa.successes # sb.successes
    /\ ~cmp.eq /\ ~cmp.lt /\ ~cmp.gt
    /\ \E c \in ScoreDomain : ScoreLess(sa, c) /\ ScoreLess(sb, c)

\* C9, as claimed: two PointScores with different points (and numeric
\* objectives) are never equivalent under <: exactly one of a < b, b < a
\* holds, and a Set<PointScore> into which both are inserted keeps both.
C9_DistinctPointsOrdered ==
    (cmp.phase = "inserted" /\ pa # pb /\ Numeric(sa) /\ Numeric(sb)) =>
        /\ cmp.plt # cmp.pgt
        /\ Len(cmp.generation) = 2

-----------------------------------------------------------------------------
(* Constraint, ConstraintState, RobustnessController (constraint.hpp,       *)
(* robustness_controller.hpp)                                               *)

\* A Constraint: the fields set by the ConstraintBuilder.  The user's
\* functions are modelled by their values on the arguments of a call: a call
\* argument io = [rob, time] gives rob[i], the value of the i-th constraint's
\* _func(input, output), and time, the value of _t_func(input, output).
Constraint(group_id, success_action, failure_kind, objective_impact, controller) ==
    [group_id |-> group_id, success_action |-> success_action,
     failure_kind |-> failure_kind, objective_impact |-> objective_impact,
     controller |-> controller]

\* ConstraintState::ConstraintState
ConstraintState == [active |-> TRUE, success |-> FALSE, failure |-> FALSE]

\* the largest value _t_func takes; the controllers' _final_time lies beyond it
MaxTime == 1
TimeDomain == 0 .. MaxTime
FinalTime == MaxTime + 1

\* TimeProgressLinearRobustnessController's constructor sets _accumulated_value
\* and leaves _previous_time uninitialised: prev0 is whatever the memory holds
ControllerInit(prev0) == [prev |-> prev0, acc |-> Zero]

\* IdentityRobustnessController::apply
IdentityApply(st, robustness, io) == [result |-> robustness, st |-> st]

\* TimeProgressLinearRobustnessController::apply
TimeProgressLinearApply(st, robustness, io) ==
    LET current_time == OfInt(io.time)
        result == DSub(robustness, DMul(DSub(current_time, st.prev), st.acc))
    IN  [result |-> result,
         st |-> [prev |-> current_time,
                 acc |-> DAdd(st.acc, DDiv(result, DSub(OfInt(FinalTime), current_time)))]]

\* Constraint::robustness: _controller_ptr->apply(_func(input, output), input, output)
\* for the constraint at position k (index k-1); returns the controlled value
\* and the controller's new state
Robustness(c, st, k, io) ==
    IF c.controller = "TimeProgressLinear"
    THEN TimeProgressLinearApply(st, OfInt(io.rob[k]), io)
    ELSE IdentityApply(st, OfInt(io.rob[k]), io)

-----------------------------------------------------------------------------
(* ConstrainingSpecification (constraining_specification.hpp) *)

\* _num_active_constraints is a size_t.  The model keeps its value modulo 2^64
\* by the representative of least absolute value: -k stands for 2^64 - k, the
\* value the counter takes when it is decremented k times from zero.
SizeTDecrement(x) == x - 1
SizeTPositive(x) == x # 0

\* a variant of the iteration that skips the states that have failed only,
\* so that a constraint that has succeeded is evaluated again
EvaluateStepOfSucceeded(cs, sts, io, k, acc) ==
    LET s == sts[k]
        c == cs[k]
        i == k - 1
    IN  IF ~s.failure
        THEN LET app == Robustness(c, acc.controllers[k], k, io)
                 robustness == app.result
                 objective ==
                     CASE c.objective_impact = "UNSIGNED" -> DAdd(acc.objective, DAbs(robustness))
                       [] c.objective_impact = "SIGNED" -> DAdd(acc.objective, robustness)
                       [] OTHER -> acc.objective
                 neg == DLess(robustness, Zero)
             IN  [objective |-> objective,
                  successes |-> IF neg THEN acc.successes ELSE acc.successes \cup {i},
                  hard_failures |-> IF neg /\ c.failure_kind = "HARD"
                                    THEN acc.hard_failures \cup {i} ELSE acc.hard_failures,
                  soft_failures |-> IF neg /\ c.failure_kind = "SOFT"
                                    THEN acc.soft_failures \cup {i} ELSE acc.soft_failures,
                  controllers |-> [acc.controllers EXCEPT ![k] = app.st]]
        ELSE acc

\* a variant of the iteration that takes a robustness of zero for a failure
EvaluateStepZeroFails(cs, sts, io, k, acc) ==
    LET s == sts[k]
        c == cs[k]
        i == k - 1
    IN  IF ~s.success /\ ~s.failure
        THEN LET app == Robustness(c, acc.controllers[k], k, io)
                 robustness == app.result
                 objective ==
                     CASE c.objective_impact = "UNSIGNED" -> DAdd(acc.objective, DAbs(robustness))
                       [] c.objective_impact = "SIGNED" -> DAdd(acc.objective, robustness)
                       [] OTHER -> acc.objective
                 neg == ~DLess(Zero, robustness)
             IN  [objective |-> objective,
                  successes |-> IF neg THEN acc.successes ELSE acc.successes \cup {i},
                  hard_failures |-> IF neg /\ c.failure_kind = "HARD"
                                    THEN acc.hard_failures \cup {i} ELSE acc.hard_failures,
                  soft_failures |-> IF neg /\ c.failure_kind = "SOFT"
                                    THEN acc.soft_failures \cup {i} ELSE acc.soft_failures,
                  controllers |-> [acc.controllers EXCEPT ![k] = app.st]]
        ELSE acc

\* one iteration of evaluate's loop, for position k (index i = k-1); acc holds
\* the objective, the three index sets and the controllers
EvaluateStep(cs, sts, io, k, acc) ==
    LET s == sts[k]
        c == cs[k]
        i == k - 1
    IN  IF ~s.success /\ ~s.failure
        THEN LET app == Robustness(c, acc.controllers[k], k, io)
                 robustness == app.result
                 objective ==
                     CASE c.objective_impact = "UNSIGNED" -> DAdd(acc.objective, DAbs(robustness))
                       [] c.objective_impact = "SIGNED" -> DAdd(acc.objective, robustness)
                       [] OTHER -> acc.objective
                 neg == DLess(robustness, Zero)
             IN  [objective |-> objective,
                  successes |-> IF neg THEN acc.successes ELSE acc.successes \cup {i},
                  hard_failures |-> IF neg /\ c.failure_kind = "HARD"
                                    THEN acc.hard_failures \cup {i} ELSE acc.hard_failures,
                  soft_failures |-> IF neg /\ c.failure_kind = "SOFT"
                                    THEN acc.soft_failures \cup {i} ELSE acc.soft_failures,
                  controllers |-> [acc.controllers EXCEPT ![k] = app.st]]
        ELSE acc

RECURSIVE EvaluateLoop(_, _, _, _, _)
EvaluateLoop(cs, sts, io, k, acc) ==
    IF k > Len(cs) THEN acc
    ELSE EvaluateLoop(cs, sts, io, k + 1, EvaluateStep(cs, sts, io, k, acc))

\* ConstrainingSpecification::evaluate(input, output): the precondition, then
\* the loop.  Returns whether it threw, the Score, and the controllers as the
\* calls of robustness left them.
Evaluate(cs, sts, n, ctrls, io) ==
    IF ~SizeTPositive(n)
    THEN [failed |-> TRUE, score |-> Score({}, {}, {}, Zero), controllers |-> ctrls]
    ELSE LET r == EvaluateLoop(cs, sts, io, 1,
                     [objective |-> Zero, successes |-> {}, hard_failures |-> {},
                      soft_failures |-> {}, controllers |-> ctrls])
         IN  [failed |-> FALSE,
              score |-> Score(r.successes, r.hard_failures, r.soft_failures, r.objective),
              controllers |-> r.controllers]

\* update_from's loop works on acc: the states, the counter,
\* group_ids_to_deactivate, and whether a precondition of set_success or
\* set_failure threw (which ends the call where it stands).

\* a variant of the success branch that flags the group whatever the success
\* action is
OnSuccessAlwaysDeactivates(cs, eval, k, acc) ==
    IF acc.thrown \/ (k - 1) \notin eval.successes THEN acc
    ELSE IF acc.states[k].failure THEN [acc EXCEPT !.thrown = TRUE]
    ELSE [acc EXCEPT !.states[k].success = TRUE,
                     !.flagged = @ \cup {cs[k].group_id}]

\* if (eval.successes().contains(i)): set_success, and flag the group when
\* the success action is DEACTIVATE
OnSuccess(cs, eval, k, acc) ==
    IF acc.thrown \/ (k - 1) \notin eval.successes THEN acc
    ELSE IF acc.states[k].failure THEN [acc EXCEPT !.thrown = TRUE]
    ELSE [acc EXCEPT !.states[k].success = TRUE,
                     !.flagged = IF cs[k].success_action = "DEACTIVATE"
                                 THEN @ \cup {cs[k].group_id} ELSE @]

\* a variant of the failure branch that treats a soft failure as a hard one
OnAnyFailure(cs, eval, k, acc) ==
    IF acc.thrown \/ (k - 1) \notin (eval.hard_failures \cup eval.soft_failures) THEN acc
    ELSE IF acc.states[k].success THEN [acc EXCEPT !.thrown = TRUE]
    ELSE [acc EXCEPT !.states[k].failure = TRUE,
                     !.flagged = @ \cup {cs[k].group_id}]

\* if (eval.hard_failures().contains(i)): set_failure, and flag the group
OnHardFailure(cs, eval, k, acc) ==
    IF acc.thrown \/ (k - 1) \notin eval.hard_failures THEN acc
    ELSE IF acc.states[k].success THEN [acc EXCEPT !.thrown = TRUE]
    ELSE [acc EXCEPT !.states[k].failure = TRUE,
                     !.flagged = @ \cup {cs[k].group_id}]

\* if (group_ids_to_deactivate.contains(group_id)): deactivate, and decrement
\* the counter
OnFlaggedGroup(cs, k, acc) ==
    IF acc.thrown \/ cs[k].group_id \notin acc.flagged THEN acc
    ELSE [acc EXCEPT !.states[k].active = FALSE, !.num = SizeTDecrement(@)]

\* one iteration of update_from's loop, for position k (index i = k-1)
UpdateStep(cs, eval, k, acc) ==
    OnFlaggedGroup(cs, k, OnHardFailure(cs, eval, k, OnSuccess(cs, eval, k, acc)))

RECURSIVE UpdateLoop(_, _, _, _)
UpdateLoop(cs, eval, k, acc) ==
    IF k > Len(cs) THEN acc
    ELSE UpdateLoop(cs, eval, k + 1, UpdateStep(cs, eval, k, acc))

\* ConstrainingSpecification::update_from(input, output)
UpdateFrom(cs, sts, n, ctrls, io) ==
    LET ev == Evaluate(cs, sts, n, ctrls, io)
    IN  IF ev.failed
        THEN [failed |-> TRUE, score |-> ev.score, states |-> sts, num |-> n,
              flagged |-> {}, controllers |-> ctrls]
        ELSE LET r == UpdateLoop(cs, ev.score, 1,
                          [states |-> sts, num |-> n, flagged |-> {}, thrown |-> FALSE])
             IN  [failed |-> r.thrown, score |-> ev.score, states |-> r.states,
                  num |-> r.num, flagged |-> r.flagged, controllers |-> ev.controllers]

-----------------------------------------------------------------------------
(* SpecCS: a ConstrainingSpecification under evaluate and update_from *)

SuccessActions == {"NONE", "DEACTIVATE"}
FailureKinds == {"NONE", "SOFT", "HARD"}
ObjectiveImpacts == {"NONE", "SIGNED", "UNSIGNED"}
ControllerKinds == {"Identity", "TimeProgressLinear"}

\* group ids matter only up to equality: the first constraint is in group 0
\* and each further one in a group already seen or in the next new one
RECURSIVE Groupings(_)
Groupings(n) ==
    IF n = 0 THEN {<<>>}
    ELSE {Append(q[1], q[2]) : q \in
            {q \in Groupings(n - 1) \X (0 .. (n - 1)) :
                q[2] = 0 \/ \E k \in 1 .. Len(q[1]) : q[1][k] >= q[2] - 1}}

\* lists of n constraints that vary the grouping, the success action and the
\* failure kind (identity controllers, unsigned objective impact)
FlagLists(n) ==
    {[k \in 1 .. n |-> Constraint(g[k], a[k], f[k], "UNSIGNED", "Identity")] :
        <<g, a, f>> \in Groupings(n) \X [1 .. n -> SuccessActions] \X [1 .. n -> FailureKinds]}

\* lists of n constraints that vary the objective impact and the controller
\* (one group, no success action, soft failures)
ControlLists(n) ==
    {[k \in 1 .. n |-> Constraint(0, "NONE", "SOFT", o[k], c[k])] :
        <<o, c>> \in [1 .. n -> ObjectiveImpacts] \X [1 .. n -> ControllerKinds]}

ConstraintLists == UNION {FlagLists(n) \cup ControlLists(n) : n \in 0 .. MaxConstraints}

\* what an uninitialised double may hold: a finite value or not
UninitialisedDoubles == {Zero, NaN}

\* values of a constraint's _func on the arguments of a call: a violated
\* value and the least satisfied one
RobustnessDomain == {-1, 0}

HasTimeProgress(cs) == \E k \in 1 .. Len(cs) : cs[k].controller = "TimeProgressLinear"

\* the arguments (input, output) of a call, by the values the user's functions
\* take on them; _t_func is called by time-progress controllers only
CallDomain(cs) ==
    {[rob |-> r, time |-> t] : <<r, t>> \in
        [1 .. Len(cs) -> RobustnessDomain] \X
        (IF HasTimeProgress(cs) THEN TimeDomain ELSE {0})}

\* ConstrainingSpecification(constraints): one ConstraintState per constraint,
\* each Constraint holding a fresh clone of its controller
InitCS ==
    /\ constraints \in ConstraintLists
    /\ states = [k \in 1 .. Len(constraints) |-> ConstraintState]
    /\ num_active = Len(constraints)
    /\ controllers \in [1 .. Len(constraints) -> {ControllerInit(p) : p \in UninitialisedDoubles}]
    /\ \A k \in 1 .. Len(constraints) :
          constraints[k].controller = "Identity" => controllers[k].prev = Zero
    /\ last = NoCall
    /\ ops = 0
    /\ ScoreRest
    /\ RunnerRest
    /\ ManagerRest

\* a call of evaluate(input, output)
EvaluateCall ==
    /\ ops < MaxOps
    /\ \E io \in CallDomain(constraints) :
          \E r \in {Evaluate(constraints, states, num_active, controllers, io)} :
              /\ controllers' = r.controllers
              /\ last' = [op |-> "evaluate", failed |-> r.failed, io |-> io,
                          score |-> r.score, flagged |-> {}]
    /\ ops' = ops + 1
    /\ UNCHANGED <<constraints, states, num_active>>
    /\ UNCHANGED scoreVars
    /\ UNCHANGED runnerVars /\ UNCHANGED managerVars

\* a call of update_from(input, output)
UpdateFromCall ==
    /\ ops < MaxOps
    /\ \E io \in CallDomain(constraints) :
          \E r \in {UpdateFrom(constraints, states, num_active, controllers, io)} :
              /\ states' = r.states
              /\ num_active' = r.num
              /\ controllers' = r.controllers
              /\ last' = [op |-> "update_from", failed |-> r.failed, io |-> io,
                          score |-> r.score, flagged |-> r.flagged]
    /\ ops' = ops + 1
    /\ UNCHANGED constraints
    /\ UNCHANGED scoreVars
    /\ UNCHANGED runnerVars /\ UNCHANGED managerVars

NextCS == EvaluateCall \/ UpdateFromCall

SpecCS == InitCS /\ [][NextCS]_vars

-----------------------------------------------------------------------------
(* Claims on the ConstrainingSpecification (SpecCS) *)

\* is_active() of the state at position k
IsActive(k) == states[k].active

NumActiveStates == Cardinality({k \in DOMAIN states : IsActive(k)})

\* C1: after any sequence of calls, num_active_constraints() equals the number
\* of constraint states whose is_active() is true (and so is never below
\* zero, nor lowered by more than the number of states that went inactive).
C1_CounterEqualsActiveStates == num_active = NumActiveStates

\* C2: after update_from returns, every constraint whose group_id was flagged
\* in that call is inactive, whatever its position in the list.
C2_FlaggedGroupsInactive ==
    (last.op = "update_from" /\ ~last.failed) =>
        \A k \in DOMAIN constraints :
            constraints[k].group_id \in last.flagged => ~IsActive(k)

\* C6: a call of evaluate that returns changes no controller state and no
\* constraint flag, and when it repeats the previous call of evaluate (same
\* arguments, nothing in between) it returns the same Score.
C6_EvaluatePure ==
    [][(last'.op = "evaluate" /\ ops' = ops + 1 /\ ~last'.failed) =>
          /\ controllers' = controllers
          /\ states' = states
          /\ num_active' = num_active
          /\ (last.op = "evaluate" /\ ~last.failed /\ last.io = last'.io)
                => last'.score = last.score]_vars

\* C7: evaluate fails whenever no constraint state is active (the list was
\* empty, or earlier calls of update_from deactivated every state).
C7_EvaluateFailsWhenNoneActive ==
    (last.op = "evaluate" /\ \A k \in DOMAIN states : ~IsActive(k)) => last.failed

-----------------------------------------------------------------------------
(* TaskRankingSpace::rank and TaskExecutionRanking (task_ranking_space.hpp,   *)
(* task_execution_ranking.cpp)                                               *)

\* A ranking parameter of dimension 1.  The user's functions are modelled by
\* their values: an output is the sequence of the values that the parameters'
\* rank functions take on it, and the threshold function is a constant.
\* The field discard is the value of discard(input) on the input of the call.
RankingParameter(optimisation, severity, uses_objective, threshold, weight) ==
    [optimisation |-> optimisation, severity |-> severity,
     uses_objective |-> uses_objective, threshold |-> threshold, weight |-> weight,
     discard |-> FALSE]

\* a ScalarObjectiveRankingParameter whose discard function holds on the input
Discarding(p) == [p EXCEPT !.discard = TRUE]

\* the ranking spaces drawn: a ScalarRankingParameter to minimise and a
\* ScalarObjectiveRankingParameter to minimise, of either severity, with
\* threshold zero; both have weight one and neither is discarded
RankingSpaces ==
    {<<RankingParameter("MINIMISE", "NONE", FALSE, 0, 1),
       RankingParameter("MINIMISE", sev, TRUE, 0, 1)>> : sev \in {"PERMISSIVE", "CRITICAL"}}

ValueDomain == 0 .. MaxValue

\* what a run of the task can return
OutputDomain == [1 .. 2 -> ValueDomain]

\* the configuration search points
RunnerPoints == 0 .. Concurrency

TaskExecutionRanking(p, s, permissive_failures, critical_failures) ==
    [point |-> p, score |-> s, permissive_failures |-> permissive_failures,
     critical_failures |-> critical_failures]

\* a variant of the order that compares the points when the failure counts
\* and the scores are equal
RankingLessThenByPoint(a, s) ==
    IF a.critical_failures > s.critical_failures THEN TRUE
    ELSE IF a.critical_failures < s.critical_failures THEN FALSE
    ELSE IF a.permissive_failures > s.permissive_failures THEN TRUE
    ELSE IF a.permissive_failures < s.permissive_failures THEN FALSE
    ELSE IF DEq(a.score, s.score) THEN a.point < s.point
    ELSE DLess(a.score, s.score)

\* a variant of the order that takes the ranking with fewer critical failures
\* for the lesser one
RankingLessCriticalSwapped(a, s) ==
    IF a.critical_failures < s.critical_failures THEN TRUE
    ELSE IF a.critical_failures > s.critical_failures THEN FALSE
    ELSE IF a.permissive_failures > s.permissive_failures THEN TRUE
    ELSE IF a.permissive_failures < s.permissive_failures THEN FALSE
    ELSE DLess(a.score, s.score)

\* TaskExecutionRanking::operator<
RankingLess(a, s) ==
    IF a.critical_failures > s.critical_failures THEN TRUE
    ELSE IF a.critical_failures < s.critical_failures THEN FALSE
    ELSE IF a.permissive_failures > s.permissive_failures THEN TRUE
    ELSE IF a.permissive_failures < s.permissive_failures THEN FALSE
    ELSE DLess(a.score, s.score)

\* the least and the greatest value of parameter k over the data (a sequence
\* of [point, output] entries)
MinValue(data, k) ==
    CHOOSE v \in {data[i].output[k] : i \in DOMAIN data} :
        \A i \in DOMAIN data : v <= data[i].output[k]
MaxOfValues(data, k) ==
    CHOOSE v \in {data[i].output[k] : i \in DOMAIN data} :
        \A i \in DOMAIN data : v >= data[i].output[k]

\* rank(): local_score of parameter k on an entry
LocalScore(data, k, entry) ==
    IF MaxOfValues(data, k) - MinValue(data, k) > 0
    THEN Rat(entry.output[k] - MinValue(data, k), MaxOfValues(data, k) - MinValue(data, k))
    ELSE Zero

\* rank(): the score of an entry, summed over the kept parameters among
\* k .. Len(sp) (kept_parameter_weights leaves out the discarded ones)
RECURSIVE WeightedScore(_, _, _, _)
WeightedScore(sp, data, k, entry) ==
    IF k > Len(sp) THEN Zero
    ELSE IF sp[k].discard THEN WeightedScore(sp, data, k + 1, entry)
    ELSE CHOOSE score \in
             {IF sp[k].optimisation = "MAXIMISE"
              THEN DAdd(rest, DMul(OfInt(sp[k].weight), local_score))
              ELSE DSub(rest, DMul(OfInt(sp[k].weight), local_score)) :
                  rest \in {WeightedScore(sp, data, k + 1, entry)},
                  local_score \in {LocalScore(data, k, entry)}} : TRUE

\* rank(): whether parameter k is an objective that the entry misses
MissesThreshold(sp, k, entry) ==
    /\ sp[k].uses_objective
    /\ \/ sp[k].optimisation = "MINIMISE" /\ entry.output[k] > sp[k].threshold
       \/ sp[k].optimisation = "MAXIMISE" /\ entry.output[k] < sp[k].threshold

\* rank(): low_errors and high_errors of an entry, counted over the kept
\* parameters
Errors(sp, entry, severity) ==
    Cardinality({k \in DOMAIN sp :
                    /\ ~sp[k].discard
                    /\ sp[k].severity = severity
                    /\ MissesThreshold(sp, k, entry)})

\* TaskRankingSpace::rank: one TaskExecutionRanking per entry, in the order of
\* the data
Rank(sp, data) ==
    [i \in DOMAIN data |->
        TaskExecutionRanking(data[i].point, WeightedScore(sp, data, 1, data[i]),
                             Errors(sp, data[i], "PERMISSIVE"), Errors(sp, data[i], "CRITICAL"))]

\* Set<TaskExecutionRanking>::insert on a set kept as its ascending sequence
RankingSetInsert(s, x) ==
    IF \E i \in 1 .. Len(s) : ~RankingLess(s[i], x) /\ ~RankingLess(x, s[i])
    THEN s
    ELSE LET k == Cardinality({i \in 1 .. Len(s) : RankingLess(s[i], x)})
         IN  SubSeq(s, 1, k) \o <<x>> \o SubSeq(s, k + 1, Len(s))

\* the Set<TaskExecutionRanking> built from the list that rank returns
RECURSIVE RankingSet(_)
RankingSet(list) ==
    IF list = <<>> THEN <<>>
    ELSE RankingSetInsert(RankingSet(SubSeq(list, 1, Len(list) - 1)), list[Len(list)])

-----------------------------------------------------------------------------
(* ParameterSearchRunner::pull, the part after the wait (task_runner.tpl.hpp) *)

\* a variant of the map insertion that keeps the entries in the order of
\* arrival
MapInsertInArrivalOrder(m, e) ==
    IF \E i \in DOMAIN m : m[i].point = e.point THEN m ELSE Append(m, e)

\* Map<ConfigurationSearchPoint, ...>::insert on a map kept as the sequence of
\* its entries in ascending key order: an entry whose key is present is dropped
MapInsert(m, e) ==
    IF \E i \in DOMAIN m : m[i].point = e.point THEN m
    ELSE LET k == Cardinality({i \in DOMAIN m : m[i].point < e.point})
         IN  SubSeq(m, 1, k) \o <<e>> \o SubSeq(m, k + 1, Len(m))

\* while (_output_buffer.size() > 0) outputs.insert(_output_buffer.pull())
RECURSIVE Drain(_)
Drain(buf) ==
    IF buf = <<>> THEN <<>>
    ELSE MapInsert(Drain(SubSeq(buf, 1, Len(buf) - 1)), buf[Len(buf)])

\* outputs.get(point)
MapGet(m, point) == (CHOOSE e \in {m[i] : i \in DOMAIN m} : e.point = point).output

\* the points of the last n elements of the ranking set (the loop from rbegin())
LastPoints(rankings, n) ==
    {rankings[i].point : i \in {j \in DOMAIN rankings : j > Len(rankings) - n}}

\* how pull ends on the outputs drained and their rankings: with no result at
\* all it dereferences the begin of an empty map and the rbegin of an empty
\* set, which is undefined
PullEnd(buf, outputs, rankings) ==
    IF outputs = <<>>
    THEN [kind |-> "undefined", output |-> <<>>, point |-> 0, drained |-> buf,
          rankings |-> <<>>]
    ELSE [kind |-> IF rankings[Len(rankings)].critical_failures > 0
                   THEN "critical" ELSE "output",
          output |-> MapGet(outputs, rankings[Len(rankings)].point),
          point |-> rankings[Len(rankings)].point,
          drained |-> buf,
          rankings |-> rankings]

\* how pull ends on the output buffer: outputs is the map drained from it and
\* rankings the set made of what rank returns on the map
PullRanked(sp, buf, outputs) ==
    CHOOSE r \in {PullEnd(buf, outputs, rankings) :
                      rankings \in {RankingSet(list) : list \in {Rank(sp, outputs)}}} : TRUE

PullOutcome(sp, buf) ==
    CHOOSE r \in {PullRanked(sp, buf, outputs) : outputs \in {Drain(buf)}} : TRUE

\* the number of best points that pull keeps: the loop breaks once
\* cnt >= _concurrency / 2, after at least one
NumKept == IF Concurrency \div 2 > 1 THEN Concurrency \div 2 ELSE 1

\* a set of points as the sequence in which a range-for visits it
RECURSIVE Ascending(_)
Ascending(S) == IF S = {} THEN <<>> ELSE <<SetMin(S)>> \o Ascending(S \ {SetMin(S)})

\* a variant of the extension that returns the sources alone
SourcesOnly(sources) == {sources}

\* make_extended_set_by_shifting(sources, size): a set of size points that
\* holds the sources
ExtendedSets(sources) ==
    {S \in SUBSET RunnerPoints : sources \subseteq S /\ Cardinality(S) = Concurrency}

\* initial_point().make_random_shifted(amount): a set of amount points
RandomShifted == {S \in SUBSET RunnerPoints : Cardinality(S) = Concurrency}

-----------------------------------------------------------------------------
(* SpecRunner: a ParameterSearchRunner, its caller and its worker threads *)

\* The caller alternates push and pull and may destroy the runner between two
\* iterations.  A wait on a condition variable is two steps, the test of the
\* predicate and the blocking, because push and the workers notify without
\* holding the mutex that the waiting thread holds.

\* the constraints handed to TaskManager::choose_runner_for, which requires
\* a list that is not empty and sets it on the runner's task
TaskConstraints == <<Constraint(0, "DEACTIVATE", "HARD", "UNSIGNED", "Identity")>>

InitRunner ==
    /\ space \in RankingSpaces
    /\ RunnerConstructed
    /\ ScoreRest
    /\ ManagerRest
    /\ constraints = TaskConstraints
    /\ states = [k \in 1 .. Len(constraints) |-> ConstraintState]
    /\ num_active = Len(constraints)
    /\ controllers = [k \in 1 .. Len(constraints) |-> ControllerInit(Zero)]
    /\ last = NoCall
    /\ ops = 0

\* _input_availability.notify_all()
NotifiedWorkers == [w \in Workers |-> IF wpc[w] = "blocked" THEN "lock" ELSE wpc[w]]

\* push, up to the loop: on the first call the initial points are queued and
\* the threads activated
PushBegin ==
    /\ rpc = "idle" /\ iter < MaxIterations
    /\ IF ~active
       THEN /\ active' = TRUE
            /\ \E S \in RandomShifted : points' = points \o Ascending(S)
            /\ wpc' = [w \in Workers |-> "lock"]
       ELSE UNCHANGED <<active, points, wpc>>
    /\ iter' = iter + 1
    /\ npushed' = 0
    /\ rpc' = "pushing"
    /\ pulled' = NoPull
    /\ UNCHANGED <<space, terminate, input_buffer, output_buffer, failures,
                   last_used_input, input_mutex, wpkg, best_rankings>>
    /\ UNCHANGED scoreVars /\ UNCHANGED csVars /\ UNCHANGED managerVars

\* push, one iteration of the loop: _input_buffer.push({input, _points.front()})
\* blocks while the buffer is full; front() and pop() on an empty queue are
\* undefined
PushItem ==
    /\ rpc = "pushing" /\ npushed < Concurrency
    /\ Len(input_buffer) < Concurrency
    /\ IF points = <<>>
       THEN /\ rpc' = "undefined"
            /\ UNCHANGED <<input_buffer, points, npushed>>
       ELSE /\ input_buffer' = Append(input_buffer, [input |-> iter, point |-> Head(points)])
            /\ points' = Tail(points)
            /\ npushed' = npushed + 1
            /\ UNCHANGED rpc
    /\ UNCHANGED <<space, iter, active, terminate, output_buffer, failures,
                   last_used_input, input_mutex, wpc, wpkg, best_rankings, pulled>>
    /\ UNCHANGED scoreVars /\ UNCHANGED csVars /\ UNCHANGED managerVars

\* push, after the loop: _last_used_input.push(input) and notify_all()
PushEnd ==
    /\ rpc = "pushing" /\ npushed = Concurrency
    /\ Len(last_used_input) < 1
    /\ last_used_input' = Append(last_used_input, iter)
    /\ wpc' = NotifiedWorkers
    /\ rpc' = "pull_test"
    /\ UNCHANGED <<space, iter, npushed, active, terminate, points, input_buffer,
                   output_buffer, failures, input_mutex, wpkg, best_rankings, pulled>>
    /\ UNCHANGED scoreVars /\ UNCHANGED csVars /\ UNCHANGED managerVars

\* a variant of pull that does not wait
PullTestWithoutWait ==
    /\ rpc = "pull_test"
    /\ rpc' = "pull_body"
    /\ UNCHANGED <<space, iter, npushed, active, terminate, points, input_buffer,
                   output_buffer, failures, last_used_input, input_mutex, wpc, wpkg,
                   best_rankings, pulled>>
    /\ UNCHANGED scoreVars /\ UNCHANGED csVars /\ UNCHANGED managerVars

\* a variant of the wait of pull that ends on the first result
PullTestOnFirstResult ==
    /\ rpc = "pull_test"
    /\ rpc' = IF Len(output_buffer) >= 1 THEN "pull_body" ELSE "pull_wait"
    /\ UNCHANGED <<space, iter, npushed, active, terminate, points, input_buffer,
                   output_buffer, failures, last_used_input, input_mutex, wpc, wpkg,
                   best_rankings, pulled>>
    /\ UNCHANGED scoreVars /\ UNCHANGED csVars /\ UNCHANGED managerVars

\* pull: the predicate of _output_availability.wait
PullTest ==
    /\ rpc = "pull_test"
    /\ rpc' = IF Len(output_buffer) >= Concurrency - failures THEN "pull_body" ELSE "pull_wait"
    /\ UNCHANGED <<space, iter, npushed, active, terminate, points, input_buffer,
                   output_buffer, failures, last_used_input, input_mutex, wpc, wpkg,
                   best_rankings, pulled>>
    /\ UNCHANGED scoreVars /\ UNCHANGED csVars /\ UNCHANGED managerVars

\* pull: the predicate was false, the thread blocks on _output_availability
PullBlock ==
    /\ rpc = "pull_wait"
    /\ rpc' = "pull_blocked"
    /\ UNCHANGED <<space, iter, npushed, active, terminate, points, input_buffer,
                   output_buffer, failures, last_used_input, input_mutex, wpc, wpkg,
                   best_rankings, pulled>>
    /\ UNCHANGED scoreVars /\ UNCHANGED csVars /\ UNCHANGED managerVars

\* pull, after the wait: reset of _failures, the input taken back, the output
\* buffer drained and ranked, the new points queued, and then either the
\* exception for a critical failure or the best ranking appended to the
\* TaskManager and its output returned
PullBody ==
    /\ rpc = "pull_body"
    /\ Len(last_used_input) > 0
    /\ \E r \in {PullOutcome(space, output_buffer)} :
          /\ pulled' = r
          /\ IF r.kind = "undefined"
             THEN /\ rpc' = "undefined"
                  /\ UNCHANGED <<points, best_rankings>>
             ELSE /\ rpc' = "idle"
                  /\ \E S \in ExtendedSets(LastPoints(r.rankings, NumKept)) :
                        points' = points \o Ascending(S)
                  /\ best_rankings' = IF r.kind = "output"
                                      THEN Append(best_rankings, r.rankings[Len(r.rankings)])
                                      ELSE best_rankings
    /\ failures' = 0
    /\ last_used_input' = Tail(last_used_input)
    /\ output_buffer' = <<>>
    /\ UNCHANGED <<space, iter, npushed, active, terminate, input_buffer,
                   input_mutex, wpc, wpkg>>
    /\ UNCHANGED scoreVars /\ UNCHANGED csVars /\ UNCHANGED managerVars

\* ~ParameterSearchRunner: _terminate = true and notify_all()
Destroy ==
    /\ rpc = "idle"
    /\ terminate' = TRUE
    /\ wpc' = NotifiedWorkers
    /\ rpc' = "destroyed"
    /\ UNCHANGED <<space, iter, npushed, active, points, input_buffer, output_buffer,
                   failures, last_used_input, input_mutex, wpkg, best_rankings, pulled>>
    /\ UNCHANGED scoreVars /\ UNCHANGED csVars /\ UNCHANGED managerVars

\* _loop: std::unique_lock<std::mutex> locker(_input_mutex) (also when the
\* wait takes the mutex again after a notification) and the predicate of
\* _input_availability.wait; when it holds the wait returns and
\* locker.unlock() follows
WorkerTest(w) ==
    /\ wpc[w] = "lock" /\ input_mutex = 0
    /\ IF Len(input_buffer) > 0 \/ terminate
       THEN /\ wpc' = [wpc EXCEPT ![w] = "unlocked"]
            /\ UNCHANGED input_mutex
       ELSE /\ wpc' = [wpc EXCEPT ![w] = "wait"]
            /\ input_mutex' = w
    /\ UNCHANGED <<space, rpc, iter, npushed, active, terminate, points, input_buffer,
                   output_buffer, failures, last_used_input, wpkg, best_rankings, pulled>>
    /\ UNCHANGED scoreVars /\ UNCHANGED csVars /\ UNCHANGED managerVars

\* _loop: the predicate was false, the thread releases the mutex and blocks
WorkerBlock(w) ==
    /\ wpc[w] = "wait"
    /\ wpc' = [wpc EXCEPT ![w] = "blocked"]
    /\ input_mutex' = 0
    /\ UNCHANGED <<space, rpc, iter, npushed, active, terminate, points, input_buffer,
                   output_buffer, failures, last_used_input, wpkg, best_rankings, pulled>>
    /\ UNCHANGED scoreVars /\ UNCHANGED csVars /\ UNCHANGED managerVars

\* _loop: if (_terminate) break
WorkerTerminateTest(w) ==
    /\ wpc[w] = "unlocked"
    /\ wpc' = [wpc EXCEPT ![w] = IF terminate THEN "exited" ELSE "pull"]
    /\ UNCHANGED <<space, rpc, iter, npushed, active, terminate, points, input_buffer,
                   output_buffer, failures, last_used_input, input_mutex, wpkg,
                   best_rankings, pulled>>
    /\ UNCHANGED scoreVars /\ UNCHANGED csVars /\ UNCHANGED managerVars

\* _loop: auto pkg = _input_buffer.pull(), which blocks while the buffer is empty
WorkerPull(w) ==
    /\ wpc[w] = "pull"
    /\ Len(input_buffer) > 0
    /\ wpkg' = [wpkg EXCEPT ![w] = Head(input_buffer)]
    /\ input_buffer' = Tail(input_buffer)
    /\ wpc' = [wpc EXCEPT ![w] = "run"]
    /\ UNCHANGED <<space, rpc, iter, npushed, active, terminate, points, output_buffer,
                   failures, last_used_input, input_mutex, best_rankings, pulled>>
    /\ UNCHANGED scoreVars /\ UNCHANGED csVars /\ UNCHANGED managerVars

\* _loop: _task->run(pkg.first, cfg) returns an output and
\* _output_buffer.push(...) queues it, which blocks while the buffer is full
WorkerRun(w) ==
    /\ wpc[w] = "run"
    /\ Len(output_buffer) < Concurrency
    /\ \E o \in OutputDomain :
          output_buffer' = Append(output_buffer, [point |-> wpkg[w].point, output |-> o])
    /\ wpc' = [wpc EXCEPT ![w] = "notify"]
    /\ UNCHANGED <<space, rpc, iter, npushed, active, terminate, points, input_buffer,
                   failures, last_used_input, input_mutex, wpkg, best_rankings, pulled>>
    /\ UNCHANGED scoreVars /\ UNCHANGED csVars /\ UNCHANGED managerVars

\* a variant of the catch block that does not count the failure
WorkerRunThrowsUncounted(w) ==
    /\ wpc[w] = "run"
    /\ wpc' = [wpc EXCEPT ![w] = "notify"]
    /\ UNCHANGED <<space, rpc, iter, npushed, active, terminate, points, input_buffer,
                   output_buffer, failures, last_used_input, input_mutex, wpkg,
                   best_rankings, pulled>>
    /\ UNCHANGED scoreVars /\ UNCHANGED csVars /\ UNCHANGED managerVars

\* _loop: _task->run throws (a std::exception), the catch block counts the
\* failure
WorkerRunThrows(w) ==
    /\ wpc[w] = "run"
    /\ failures' = failures + 1
    /\ wpc' = [wpc EXCEPT ![w] = "notify"]
    /\ UNCHANGED <<space, rpc, iter, npushed, active, terminate, points, input_buffer,
                   output_buffer, last_used_input, input_mutex, wpkg, best_rankings, pulled>>
    /\ UNCHANGED scoreVars /\ UNCHANGED csVars /\ UNCHANGED managerVars

\* _loop: _output_availability.notify_all(), and round the loop
WorkerNotify(w) ==
    /\ wpc[w] = "notify"
    /\ rpc' = IF rpc = "pull_blocked" THEN "pull_test" ELSE rpc
    /\ wpc' = [wpc EXCEPT ![w] = "lock"]
    /\ wpkg' = [wpkg EXCEPT ![w] = <<>>]
    /\ UNCHANGED <<space, iter, npushed, active, terminate, points, input_buffer,
                   output_buffer, failures, last_used_input, input_mutex,
                   best_rankings, pulled>>
    /\ UNCHANGED scoreVars /\ UNCHANGED csVars /\ UNCHANGED managerVars

Worker ==
    \E w \in Workers :
        \/ WorkerTest(w) \/ WorkerBlock(w) \/ WorkerTerminateTest(w)
        \/ WorkerPull(w) \/ WorkerRun(w) \/ WorkerRunThrows(w) \/ WorkerNotify(w)

NextRunner ==
    \/ PushBegin \/ PushItem \/ PushEnd \/ PullTest \/ PullBlock \/ PullBody \/ Destroy
    \/ Worker

SpecRunner == InitRunner /\ [][NextRunner]_vars

-----------------------------------------------------------------------------
(* Claims on ParameterSearchRunner::pull (SpecRunner) *)

\* C3: when pull returns an output, it is the output of the point that is the
\* minimum under < among the results of the iteration, and the constraining
\* state has been updated with that output.
C3_ReturnsMinimumAndUpdatesWithIt ==
    pulled.kind = "output" =>
        /\ pulled.point = pulled.rankings[1].point
        /\ last.op = "update_from"

\* C4: when an iteration has ended, the constraining state has been updated
\* once for every iteration made, so the calls made on it number the calls of
\* push.
C4_OneUpdatePerIteration ==
    (rpc = "idle" /\ pulled.kind = "output") => ops = iter

\* C5: pull signals NoActiveConstraints exactly when no constraint state is
\* active after it, and in every other case returns an output.
C5_NoActiveConstraintsOrOutput ==
    pulled.kind # "none" =>
        IF NumActiveStates = 0
        THEN pulled.kind = "no_active_constraints"
        ELSE pulled.kind = "output"

\* the sequences that hold the elements of q in any order
Reorderings(q) ==
    {[i \in 1 .. Len(q) |-> q[f[i]]] : f \in Permutations(1 .. Len(q))}

\* what the caller of pull observes: the output returned or the exception
\* thrown, the point chosen and the rankings of the iteration
Observed(r) == [kind |-> r.kind, output |-> r.output, point |-> r.point,
                rankings |-> r.rankings]

\* C10: the way pull ended is the way it ends on the same results in any
\* other order of arrival in the output buffer, and in no order does it
\* change the constraining state.
C10_IndependentOfArrivalOrder ==
    pulled.kind # "none" =>
        /\ \A q \in Reorderings(pulled.drained) :
              Observed(PullOutcome(space, q)) = Observed(pulled)
        /\ last = NoCall /\ ops = 0 /\ num_active = Len(constraints)

\* C10, witness: pull has returned on two results that arrived against the
\* order of their points and that rank the same
C10_Witness ==
    /\ pulled.kind = "output"
    /\ Len(pulled.drained) = 2
    /\ pulled.drained[1].point > pulled.drained[2].point
    /\ Len(pulled.rankings) = 1

-----------------------------------------------------------------------------
(* Claims on the generation, the waits and the worker loop (SpecRunner) *)

\* C11: when pull returns an output, the set of scored points of the
\* iteration, of which it publishes to the TaskManager, holds exactly
\* _concurrency elements.
C11_GenerationHasKScores ==
    pulled.kind = "output" => Len(pulled.rankings) = Concurrency

\* the steps of one worker thread, and those of the caller inside push and pull
WorkerStep(w) ==
    \/ WorkerTest(w) \/ WorkerBlock(w) \/ WorkerTerminateTest(w)
    \/ WorkerPull(w) \/ WorkerRun(w) \/ WorkerRunThrows(w) \/ WorkerNotify(w)

CallerStep == PushItem \/ PushEnd \/ PullTest \/ PullBlock \/ PullBody

\* SpecRunnerFair: every thread that can take a step is scheduled in the end
\* and every task body ends, by returning or by throwing; the caller is free
\* to stop between two iterations, and makes FairIterations calls of push at most
FairIterations == 1

PushBeginFair == iter < FairIterations /\ PushBegin

NextRunnerFair ==
    \/ PushBeginFair \/ PushItem \/ PushEnd \/ PullTest \/ PullBlock \/ PullBody
    \/ Destroy \/ Worker

SpecRunnerFair ==
    /\ InitRunner /\ [][NextRunnerFair]_vars
    /\ WF_vars(CallerStep)
    /\ \A w \in Workers : WF_vars(WorkerStep(w))

\* the caller is inside the wait of pull
InPullWait == rpc \in {"pull_test", "pull_wait", "pull_blocked"}

\* C12: once a task run of the iteration has queued its output, the pull of
\* the iteration ends in the end, by returning an output or by throwing.
C12_PullEventuallyReturns ==
    (InPullWait /\ output_buffer # <<>>) ~> (rpc = "idle")

\* C13: while every task run of the iteration has thrown, the caller stays in
\* push or in the wait of pull: pull neither returns nor goes on to rank an
\* empty set of results.
C13_AllFailedPullStaysInWait ==
    failures = Concurrency => (rpc = "pushing" \/ InPullWait)

\* the caller is inside push or pull
InIteration == rpc = "pushing" \/ InPullWait \/ rpc = "pull_body"

\* the work items of the iteration that are queued or held by a worker that
\* has not yet run the task on them
Pending == Len(input_buffer) + Cardinality({w \in Workers : wpc[w] = "run"})

C15_WorkersEventuallyExit ==
    terminate ~> (\A w \in Workers : wpc[w] \in {"exited", "inactive"})

-----------------------------------------------------------------------------
(* SpecChoose: TaskManager::choose_runner_for (task_manager.hpp) *)

\* values of BetterThreads::ThreadManager::instance().concurrency()
MaxAvailable == 3
\* values of search_space().total_points() of a configuration that is not
\* singleton
MaxTotalPoints == 3

\* A configuration is modelled by is_singleton(), the number of points of its
\* search space and the point it has been made singleton at (none for one
\* that the user made singleton).
Configurations ==
    {[is_singleton |-> TRUE, total_points |-> 1, frozen_at |-> {}]}
    \cup {[is_singleton |-> FALSE, total_points |-> n, frozen_at |-> {}] :
              n \in 2 .. MaxTotalPoints}

\* cfg.search_space().initial_point()
SearchSpaceInitialPoint == 0

\* the points a caller passes as initial_point
InitialPoints == 0 .. 1

\* make_singleton(cfg, point)
MakeSingleton(cfg, point) ==
    [is_singleton |-> TRUE, total_points |-> 1, frozen_at |-> {point}]

\* new SequentialRunner<T>(cfg): it runs in the calling thread
SequentialRunner(cfg) ==
    [kind |-> "Sequential", configuration |-> cfg, concurrency |-> 1,
     constraints |-> <<>>]

\* new ParameterSearchRunner<T>(cfg, *_exploration, initial_point, concurrency)
ParameterSearchRunner(cfg, initial_point, concurrency) ==
    [kind |-> "ParameterSearch", configuration |-> cfg, concurrency |-> concurrency,
     constraints |-> <<>>]

\* std::min
Min(a, b) == IF b < a THEN b ELSE a

\* a variant of the choice that does not look at the concurrency
ChooseRunnerIgnoringConcurrency(cfg, cons, initial_point, concurrency) ==
    IF cons = <<>>
    THEN [thrown |-> TRUE, runner |-> NoRunner]
    ELSE [thrown |-> FALSE,
          runner |->
              [(IF ~cfg.is_singleton
                THEN ParameterSearchRunner(cfg, initial_point,
                                           Min(concurrency, cfg.total_points))
                ELSE SequentialRunner(cfg))
               EXCEPT !.constraints = cons]]

\* choose_runner_for(runnable)
ChooseRunnerFor(cfg) ==
    [thrown |-> FALSE,
     runner |-> IF ~cfg.is_singleton
                THEN SequentialRunner(MakeSingleton(cfg, SearchSpaceInitialPoint))
                ELSE SequentialRunner(cfg)]

\* choose_runner_for(runnable, constraints, initial_point); concurrency is
\* what ThreadManager::instance().concurrency() returns.  The precondition
\* throws on an empty list, before a runner is made.
ChooseRunnerForConstraints(cfg, cons, initial_point, concurrency) ==
    IF cons = <<>>
    THEN [thrown |-> TRUE, runner |-> NoRunner]
    ELSE [thrown |-> FALSE,
          runner |->
              [(IF concurrency > 1 /\ ~cfg.is_singleton
                THEN ParameterSearchRunner(cfg, initial_point,
                                           Min(concurrency, cfg.total_points))
                ELSE IF ~cfg.is_singleton
                THEN SequentialRunner(MakeSingleton(cfg, initial_point))
                ELSE SequentialRunner(cfg))
               EXCEPT !.constraints = cons]]

\* the calls drawn: either overload on any configuration, the second one
\* with an empty or a non-empty list, under any available concurrency
Requests ==
    {[overload |-> 1, cfg |-> cfg, constraints |-> <<>>,
      initial_point |-> SearchSpaceInitialPoint, concurrency |-> c] :
          cfg \in Configurations, c \in 1 .. MaxAvailable}
    \cup {[overload |-> 2, cfg |-> cfg, constraints |-> cons, initial_point |-> p,
            concurrency |-> c] :
              cfg \in Configurations, cons \in {<<>>, TaskConstraints},
              p \in InitialPoints, c \in 1 .. MaxAvailable}

InitChoose ==
    /\ ManagerRest
    /\ ScoreRest /\ CSRest /\ RunnerRest

\* one call of choose_runner_for on the runnable: set_runner replaces the
\* runner, unless the call threw
ChooseRunnerCall ==
    /\ \E rq \in Requests :
          \E r \in {IF rq.overload = 1
                    THEN ChooseRunnerFor(rq.cfg)
                    ELSE ChooseRunnerForConstraints(rq.cfg, rq.constraints,
                                                    rq.initial_point, rq.concurrency)} :
              /\ choice' = [overload |-> rq.overload, cfg |-> rq.cfg,
                            constraints |-> rq.constraints,
                            initial_point |-> rq.initial_point,
                            concurrency |-> rq.concurrency, thrown |-> r.thrown]
              /\ runner' = IF r.thrown THEN runner ELSE r.runner
    /\ UNCHANGED <<calls, data_mutex, exploration, explored>> /\ UNCHANGED otherVars
    /\ UNCHANGED scoreVars /\ UNCHANGED csVars /\ UNCHANGED runnerVars

NextChoose == ChooseRunnerCall

SpecChoose == InitChoose /\ [][NextChoose]_vars

-----------------------------------------------------------------------------
(* Claims on TaskManager::choose_runner_for (SpecChoose) *)

\* the last call was made with constraints, with more than one thread
\* available and on a configuration that is not singleton
SearchCase ==
    /\ choice.constraints # <<>>
    /\ choice.concurrency > 1
    /\ ~choice.cfg.is_singleton

\* the configuration a Sequential runner is to run on after the last call
SequentialConfiguration ==
    IF choice.cfg.is_singleton THEN choice.cfg
    ELSE MakeSingleton(choice.cfg, choice.initial_point)

\* what the last call installed follows its arguments
Installed ==
    /\ ~choice.thrown
    /\ IF SearchCase
       THEN runner.kind = "ParameterSearch"
       ELSE runner.kind = "Sequential" /\ runner.configuration = SequentialConfiguration

\* C19 as stated: after every call of choose_runner_for the runnable has a
\* ParameterSearch runner if the call had constraints, more than one thread
\* available and a configuration that is not singleton, and in every other
\* case a Sequential runner on the configuration made singleton at the
\* initial point.
C19_SearchOrSequentialAlways ==
    choice.overload # 0 => Installed

\* C19, amended: the same, but a call of the form that takes a constraint
\* list throws when the list is empty and installs nothing.
C19_SearchOrSequentialUnlessEmptyList ==
    choice.overload # 0 =>
        IF choice.overload = 2 /\ choice.constraints = <<>>
        THEN choice.thrown
        ELSE Installed

\* C19, witness: a ParameterSearch runner was installed with fewer threads
\* than are available, as many as the search space has points
C19_Witness ==
    /\ choice.overload = 2 /\ ~choice.thrown
    /\ runner.kind = "ParameterSearch"
    /\ runner.concurrency = choice.cfg.total_points
    /\ runner.concurrency < choice.concurrency

-----------------------------------------------------------------------------
(* Claims on the queues of the ParameterSearchRunner (SpecRunner) *)

\* the number of threads that choose_runner_for gives a ParameterSearch
\* runner is the lesser of the available concurrency and the number of
\* points of the search space
ThreadsAreLesserOfAvailableAndPoints ==
    \A rq \in Requests :
        \A r \in {ChooseRunnerForConstraints(rq.cfg, rq.constraints, rq.initial_point,
                                             rq.concurrency)} :
            (~r.thrown /\ r.runner.kind = "ParameterSearch") =>
                /\ r.runner.concurrency <= rq.concurrency
                /\ r.runner.concurrency <= rq.cfg.total_points
                /\ r.runner.concurrency \in {rq.concurrency, rq.cfg.total_points}

\* C16: neither buffer ever holds more than _concurrency elements, which is
\* the number of worker threads and the lesser of the available concurrency
\* and the points of the search space; and whenever push is about to queue a
\* work item, or a worker its output, the buffer has room, so that no push
\* on a buffer waits.
C16_QueuesBoundedAndPushesPass ==
    /\ Len(input_buffer) <= Concurrency /\ Len(output_buffer) <= Concurrency
    /\ Cardinality(Workers) = Concurrency
    /\ ThreadsAreLesserOfAvailableAndPoints
    /\ (rpc = "pushing" /\ npushed < Concurrency) => Len(input_buffer) < Concurrency
    /\ \A w \in Workers : wpc[w] = "run" => Len(output_buffer) < Concurrency

\* C16, witness: in the second iteration the output buffer holds one result
\* and a worker is about to queue the last one
C16_Witness ==
    /\ iter = 2 /\ InPullWait
    /\ Len(output_buffer) = Concurrency - 1
    /\ \E w \in Workers : wpc[w] = "run"

-----------------------------------------------------------------------------
(* SpecManager: threads calling the TaskManager singleton (task_manager.cpp) *)

\* A call is in three steps: it is made, it gets to the data (after taking
\* _data_mutex, if the function takes it), and it returns, where its effect
\* is applied.  Two calls that are at the same data at the same time, one of
\* them writing, are a data race, whose outcome is undefined: either call
\* may then take effect or not, and the history may be left empty.

ManagerOps == {"append_best_ranking", "clear_best_rankings", "best_rankings",
               "optimal_point", "set_exploration"}

\* std::lock_guard<std::mutex> lock(_data_mutex) is the first statement of
\* append_best_ranking and of no other of these functions
LocksDataMutex(op) == op = "append_best_ranking"

WritesData(op) == op \in {"append_best_ranking", "clear_best_rankings", "set_exploration"}

DataOf(op) == IF op = "set_exploration" THEN "_exploration" ELSE "_best_rankings"

\* thread t, in a call of op, gets to the data: it races with every thread
\* that is at the same data, if either writes
AtData(t, op) ==
    LET racing == {u \in Callers \ {t} :
                      /\ calls[u].pc = "access"
                      /\ DataOf(calls[u].op) = DataOf(op)
                      /\ WritesData(calls[u].op) \/ WritesData(op)}
    IN  [u \in Callers |->
            IF u = t THEN [op |-> op, pc |-> "access", raced |-> racing # {}]
            ELSE IF u \in racing THEN [calls[u] EXCEPT !.raced = TRUE]
            ELSE calls[u]]

\* the strategies that set_exploration may be given
Explorations == {"ShiftAndKeepBestHalf", "Custom"}

\* what the history can be after a call that was at it returns
HistoryAfter(op, raced) ==
    IF op = "append_best_ranking"
    THEN {Append(best_rankings, TaskExecutionRanking(p, Zero, 0, 0)) : p \in InitialPoints}
         \cup (IF raced THEN {best_rankings, <<>>} ELSE {})
    ELSE IF op = "clear_best_rankings"
    THEN {<<>>} \cup (IF raced THEN {best_rankings} ELSE {})
    ELSE {best_rankings}

\* what _exploration can be after a call returns
ExplorationAfter(op, raced) ==
    IF op = "set_exploration"
    THEN Explorations \cup (IF raced THEN {exploration} ELSE {})
    ELSE {exploration}

InitManager ==
    /\ ManagerRest
    /\ ScoreRest /\ CSRest /\ RunnerRest

\* a thread calls one of the functions
ManagerCall(t) ==
    /\ calls[t].pc = "idle"
    /\ \E op \in ManagerOps :
          /\ op = "append_best_ranking" => Len(best_rankings) < MaxHistory
          /\ calls' = IF LocksDataMutex(op)
                      THEN [calls EXCEPT ![t] = [op |-> op, pc |-> "lock", raced |-> FALSE]]
                      ELSE AtData(t, op)
    /\ UNCHANGED <<data_mutex, exploration, best_rankings, choice, runner, explored>> /\ UNCHANGED otherVars
    /\ UNCHANGED scoreVars /\ UNCHANGED csVars /\ UNCHANGED runnerOwnVars

\* the lock_guard takes the mutex
ManagerLock(t) ==
    /\ calls[t].pc = "lock" /\ data_mutex = 0
    /\ data_mutex' = t
    /\ calls' = AtData(t, calls[t].op)
    /\ UNCHANGED <<exploration, best_rankings, choice, runner, explored>> /\ UNCHANGED otherVars
    /\ UNCHANGED scoreVars /\ UNCHANGED csVars /\ UNCHANGED runnerOwnVars

\* the function returns: its effect, and the end of the lock_guard
ManagerReturn(t) ==
    /\ calls[t].pc = "access"
    /\ best_rankings' \in HistoryAfter(calls[t].op, calls[t].raced)
    /\ exploration' \in ExplorationAfter(calls[t].op, calls[t].raced)
    /\ data_mutex' = IF data_mutex = t THEN 0 ELSE data_mutex
    /\ calls' = [calls EXCEPT ![t] = [op |-> "none", pc |-> "idle", raced |-> FALSE]]
    /\ UNCHANGED <<choice, runner, explored>> /\ UNCHANGED otherVars
    /\ UNCHANGED scoreVars /\ UNCHANGED csVars /\ UNCHANGED runnerOwnVars

NextManager ==
    \E t \in Callers : ManagerCall(t) \/ ManagerLock(t) \/ ManagerReturn(t)

SpecManager == InitManager /\ [][NextManager]_vars

-----------------------------------------------------------------------------
(* Claims on the TaskManager's shared state (SpecManager) *)

\* C18: a thread that is at the history or at the exploration strategy holds
\* _data_mutex, so that no call is ever in a data race.
C18_AccessesHoldDataMutex ==
    \A t \in Callers :
        calls[t].pc = "access" => (data_mutex = t /\ ~calls[t].raced)

-----------------------------------------------------------------------------
(* SpecExplore: ShiftAndKeepBestHalfExploration::next_points_from            *)
(* (exploration.cpp)                                                         *)

\* the greatest size of the generations drawn, which is also the number of
\* points of the search space
MaxGeneration == 4

ExplorationPoints == 0 .. MaxGeneration - 1

\* the evaluations drawn; PointEvaluation has the members and the operator<
\* of PointConstraintScore, so that PointScore and SetInsert model it
Evaluations ==
    {PointScore(p, Score({}, {}, {}, OfInt(v))) : p \in ExplorationPoints, v \in 0 .. 1}

\* the Set<PointEvaluation> that holds the elements of S
RECURSIVE GenerationOf(_)
GenerationOf(S) ==
    IF S = {} THEN <<>>
    ELSE SetInsert(GenerationOf(S \ {CHOOSE x \in S : TRUE}), CHOOSE x \in S : TRUE)

Generations ==
    {GenerationOf(S) : S \in {T \in SUBSET Evaluations : Cardinality(T) <= MaxGeneration}}

\* the loop of next_points_from: the points of the elements from begin()
\* until cnt >= rankings.size() / 2, after at least one
KeptPoints(rankings) ==
    {rankings[i].point :
        i \in {j \in DOMAIN rankings : j = 1 \/ j <= Len(rankings) \div 2}}

\* make_extended_set_by_shifting(sources, size): a set of size points of the
\* space that holds the sources
MakeExtendedSetByShifting(sources, size) ==
    {S \in SUBSET ExplorationPoints : sources \subseteq S /\ Cardinality(S) = size}

\* a variant of next_points_from that returns the points kept
NextPointsKept(rankings) == {KeptPoints(rankings)}

\* next_points_from(rankings): the sets it may return
NextPointsFrom(rankings) ==
    MakeExtendedSetByShifting(KeptPoints(rankings), Len(rankings))

InitExplore ==
    /\ explored \in {[called |-> FALSE, rankings |-> g, points |-> <<>>] : g \in Generations}
    /\ choice = NoChoice /\ runner = NoRunner /\ ManagerConstructed
    /\ OtherRest
    /\ ScoreRest /\ CSRest /\ RunnerRest

\* the call of next_points_from on the generation drawn; the set returned is
\* kept as the sequence in which it is iterated
NextPointsFromCall ==
    /\ ~explored.called
    /\ \E S \in NextPointsFrom(explored.rankings) :
          explored' = [explored EXCEPT !.called = TRUE, !.points = Ascending(S)]
    /\ UNCHANGED <<choice, runner, calls, data_mutex, exploration>> /\ UNCHANGED otherVars
    /\ UNCHANGED scoreVars /\ UNCHANGED csVars /\ UNCHANGED runnerVars

SpecExplore == InitExplore /\ [][NextPointsFromCall]_vars

CeilHalf(n) == (n + 1) \div 2

\* C21: the points of the best half of the generation, rounded up, counted
\* from the best, are all among the points that next_points_from returns.
C21_BestHalfRoundedUpKept ==
    explored.called =>
        \A i \in 1 .. CeilHalf(Len(explored.rankings)) :
            \E j \in DOMAIN explored.points :
                explored.points[j] = explored.rankings[i].point

-----------------------------------------------------------------------------
(* SpecTaskManager and SpecConcurrency: the calls of one thread on the       *)
(* TaskManager singleton (task_manager.cpp)                                  *)

\* the dimension of the search space of the points recorded
Dimension == 2
\* the coordinates of a point are in 0 .. MaxCoordinate
MaxCoordinate == 2
\* the rankings appended to the history
MaxRecorded == 3
\* what std::thread::hardware_concurrency() may return: 0 .. MaxHardwareConcurrency
MaxHardwareConcurrency == 6

\* ConfigurationSearchPoint::coordinates()
Coordinates == [1 .. Dimension -> 0 .. MaxCoordinate]

\* frequencies[i] after the first loop of optimal_point: how often each value
\* of coordinate i occurs in the history
Frequencies(history, i) ==
    [v \in {history[h].point[i] : h \in DOMAIN history} |->
        Cardinality({h \in DOMAIN history : history[h].point[i] = v})]

\* the second loop of optimal_point over the keys of frequencies[i] in
\* ascending order, from position k with the best value found so far
RECURSIVE BestValue(_, _, _, _)
BestValue(freq, keys, k, best_value) ==
    IF k > Len(keys) THEN best_value
    ELSE BestValue(freq, keys, k + 1,
                   IF freq[keys[k]] > freq[best_value] THEN keys[k] ELSE best_value)

\* a variant of optimal_point that returns the origin for the empty history
OptimalPointUnguarded(history) ==
    IF history = <<>> THEN [i \in 1 .. Dimension |-> 0]
    ELSE [i \in 1 .. Dimension |->
            CHOOSE r \in {BestValue(freq, keys, 2, keys[1]) :
                            freq \in {Frequencies(history, i)},
                            keys \in {Ascending({history[h].point[i] : h \in DOMAIN history})}} : TRUE]

\* TaskManager::optimal_point
OptimalPoint(history) ==
    IF history = <<>> THEN <<>>
    ELSE [i \in 1 .. Dimension |->
            CHOOSE r \in {BestValue(freq, keys, 2, keys[1]) :
                            freq \in {Frequencies(history, i)},
                            keys \in {Ascending({history[h].point[i] : h \in DOMAIN history})}} : TRUE]

\* a variant of set_concurrency that accepts the value 0
SetConcurrencyAcceptsZero(m, value) ==
    IF value <= m.maximum_concurrency
    THEN [m EXCEPT !.concurrency = value,
                   !.last = [NoManagerCall EXCEPT !.op = "set_concurrency", !.value = value]]
    ELSE [m EXCEPT !.last = [NoManagerCall EXCEPT !.op = "set_concurrency",
                                                  !.value = value, !.threw = TRUE]]

\* TaskManager::set_concurrency(value): the precondition throws before the
\* assignment
SetConcurrency(m, value) ==
    IF value <= m.maximum_concurrency /\ value > 0
    THEN [m EXCEPT !.concurrency = value,
                   !.last = [NoManagerCall EXCEPT !.op = "set_concurrency", !.value = value]]
    ELSE [m EXCEPT !.last = [NoManagerCall EXCEPT !.op = "set_concurrency",
                                                  !.value = value, !.threw = TRUE]]

\* TaskManager::TaskManager(): the history is empty
InitTaskManager ==
    /\ ManagerRest
    /\ ScoreRest /\ CSRest /\ RunnerRest

\* TaskManager::TaskManager(): _maximum_concurrency is what
\* std::thread::hardware_concurrency() returns, 0 when it cannot tell, and
\* _concurrency is 1
InitConcurrency ==
    /\ choice = NoChoice /\ runner = NoRunner /\ ManagerConstructed
    /\ explored = NoGeneration
    /\ manager \in {[maximum_concurrency |-> h, concurrency |-> 1, last |-> NoManagerCall] :
                        h \in 0 .. MaxHardwareConcurrency}
    /\ copies = NoCopies /\ sequential = NoSequential /\ ranked = NoRanked
    /\ ScoreRest /\ CSRest /\ RunnerRest

ManagerFrame ==
    /\ UNCHANGED <<choice, runner, calls, data_mutex, exploration, explored>>
    /\ UNCHANGED <<copies, sequential, ranked>>
    /\ UNCHANGED scoreVars /\ UNCHANGED csVars /\ UNCHANGED runnerOwnVars

SetConcurrencyCall ==
    /\ \E value \in 0 .. manager.maximum_concurrency + 1 : manager' = SetConcurrency(manager, value)
    /\ UNCHANGED best_rankings /\ ManagerFrame

AppendBestRankingCall ==
    /\ Len(best_rankings) < MaxRecorded
    /\ \E p \in Coordinates :
          best_rankings' = Append(best_rankings, TaskExecutionRanking(p, Zero, 0, 0))
    /\ manager' = [manager EXCEPT !.last = [NoManagerCall EXCEPT !.op = "append_best_ranking"]]
    /\ ManagerFrame

ClearBestRankingsCall ==
    /\ best_rankings' = <<>>
    /\ manager' = [manager EXCEPT !.last = [NoManagerCall EXCEPT !.op = "clear_best_rankings"]]
    /\ ManagerFrame

BestRankingsCall ==
    /\ manager' = [manager EXCEPT !.last = [NoManagerCall EXCEPT !.op = "best_rankings",
                                                                 !.returned = best_rankings]]
    /\ UNCHANGED best_rankings /\ ManagerFrame

OptimalPointCall ==
    /\ manager' = [manager EXCEPT !.last = [NoManagerCall EXCEPT !.op = "optimal_point",
                                                !.returned = OptimalPoint(best_rankings)]]
    /\ UNCHANGED best_rankings /\ ManagerFrame

NextTaskManager ==
    \/ AppendBestRankingCall
    \/ ClearBestRankingsCall
    \/ BestRankingsCall
    \/ OptimalPointCall

\* the calls on the history, which do not touch _concurrency
SpecTaskManager == InitTaskManager /\ [][NextTaskManager]_vars

\* TaskManager::concurrency() and TaskManager::maximum_concurrency()
ConcurrencyCall ==
    /\ manager' = [manager EXCEPT !.last = [NoManagerCall EXCEPT !.op = "concurrency",
                                                !.returned = manager.concurrency]]
    /\ UNCHANGED best_rankings /\ ManagerFrame

MaximumConcurrencyCall ==
    /\ manager' = [manager EXCEPT !.last = [NoManagerCall EXCEPT !.op = "maximum_concurrency",
                                                !.returned = manager.maximum_concurrency]]
    /\ UNCHANGED best_rankings /\ ManagerFrame

NextConcurrency == SetConcurrencyCall \/ ConcurrencyCall \/ MaximumConcurrencyCall

\* the calls on _concurrency, which do not touch the history
SpecConcurrency == InitConcurrency /\ [][NextConcurrency]_vars

-----------------------------------------------------------------------------
(* Claims on the TaskManager's functions (SpecTaskManager) *)

\* std::round of the mean of coordinate i over the history: the quotient
\* rounded to the nearest integer, a half rounded up (the coordinates are
\* not negative)
RECURSIVE SumOfCoordinate(_, _, _)
SumOfCoordinate(history, i, h) ==
    IF h > Len(history) THEN 0
    ELSE history[h].point[i] + SumOfCoordinate(history, i, h + 1)

RoundedMean(history, i) ==
    (2 * SumOfCoordinate(history, i, 1) + Len(history)) \div (2 * Len(history))

\* C22: with a history that is not empty, optimal_point returns for every
\* coordinate the rounded mean of that coordinate over the points recorded.
C22_OptimalPointIsRoundedMean ==
    (manager.last.op = "optimal_point" /\ best_rankings # <<>>) =>
        \A i \in 1 .. Dimension :
            manager.last.returned[i] = RoundedMean(best_rankings, i)

\* C23: with an empty history, before any ranking was appended and after
\* the history was cleared, optimal_point returns the empty list.
C23_EmptyHistoryEmptyPoint ==
    (manager.last.op = "optimal_point" /\ best_rankings = <<>>) =>
        manager.last.returned = <<>>

\* C23, witness: optimal_point has returned the empty list on an empty
\* history
C23_Witness ==
    /\ manager.last.op = "optimal_point"
    /\ best_rankings = <<>>
    /\ manager.last.returned = <<>>

-----------------------------------------------------------------------------
(* Claims on the history that pull appends to (SpecRunner) *)

\* C24: the history holds one entry for every pull that has returned, in the
\* order of the pulls, and the entry of a pull is the first element of the
\* ordered set of scores of its generation.
C24_HistoryHoldsFirstOfEachGeneration ==
    pulled.kind = "output" =>
        /\ best_rankings # <<>>
        /\ best_rankings[Len(best_rankings)] = pulled.rankings[1]

-----------------------------------------------------------------------------
(* Claims on TaskManager::set_concurrency (SpecConcurrency) *)

\* C28: set_concurrency(v) succeeds exactly when v is at least 1 and at most
\* maximum_concurrency(), and concurrency() is v afterwards; for any other v
\* it fails and concurrency() is what it was before the call.
C28_SetConcurrencyWithinRangeOnly ==
    [][/\ manager'.maximum_concurrency = manager.maximum_concurrency
       /\ manager'.last.op = "set_concurrency" =>
             IF 1 <= manager'.last.value /\ manager'.last.value <= manager.maximum_concurrency
             THEN ~manager'.last.threw /\ manager'.concurrency = manager'.last.value
             ELSE manager'.last.threw /\ manager'.concurrency = manager.concurrency
       /\ manager'.last.op = "concurrency" =>
             /\ manager'.last.returned = manager.concurrency
             /\ manager'.concurrency = manager.concurrency
       /\ manager'.last.op = "maximum_concurrency" =>
             /\ manager'.last.returned = manager.maximum_concurrency
             /\ manager'.concurrency = manager.concurrency]_vars

\* C28, witness: concurrency() has returned the maximum, above 1, to which
\* a call of set_concurrency had set it
C28_Witness ==
    /\ manager.last.op = "concurrency"
    /\ manager.last.returned = manager.maximum_concurrency
    /\ manager.last.returned > 1

-----------------------------------------------------------------------------
(* Claims on the constraint states (SpecCS) *)

\* C25: no constraint state has both succeeded and failed, whatever calls of
\* update_from were made, and a call of update_from fails only on the
\* precondition of evaluate (no active constraint), never on the
\* precondition of set_success or of set_failure.
C25_NeverSucceededAndFailed ==
    /\ [](\A k \in DOMAIN states : ~(states[k].success /\ states[k].failure))
    /\ [][(ops' = ops + 1 /\ last'.op = "update_from" /\ last'.failed) =>
              ~SizeTPositive(num_active)]_vars

\* C25, witness: update_from has returned on a call in which a HARD
\* constraint that had succeeded before, and is still active, has negative
\* robustness
C25_Witness ==
    /\ last.op = "update_from" /\ ~last.failed
    /\ \E k \in DOMAIN states :
          /\ states[k].success /\ states[k].active
          /\ constraints[k].failure_kind = "HARD"
          /\ (k - 1) \notin last.score.successes
          /\ constraints[k].controller = "Identity"
          /\ last.io.rob[k] < 0

-----------------------------------------------------------------------------
(* SpecCopies: Constraint objects, their copies and the controllers they     *)
(* point to (constraint.hpp)                                                 *)

\* the Constraint objects that exist at the same time
MaxCopies == 3

\* A Constraint object is its controller's kind and _controller_ptr, the
\* position in the heap of the controller it points to.

\* Constraint::Constraint(name, ..., func, controller), which
\* ConstraintBuilder::build() calls: _controller_ptr(controller.clone()), a
\* controller of its own, in the state in which clone() constructs it
BuildConstraint(c, kind, prev0) ==
    [c EXCEPT !.objects = Append(@, [controller |-> kind, ptr |-> Len(c.heap) + 1]),
              !.heap = Append(@, ControllerInit(prev0))]

\* the copy constructor of Constraint, which the class does not declare: the
\* compiler's copies every member, and the copy of the shared_ptr points to
\* the controller of the source.  ConstraintState::ConstraintState, the
\* List<Constraint> handed to set_constraints and active_constraints() copy
\* in this way.
CopyConstraint(c, o) ==
    [c EXCEPT !.objects = Append(@, c.objects[o])]

\* Constraint::robustness through object o on the arguments io: the value
\* returned and the heap as apply leaves it
RobustnessOf(c, o, io) ==
    CHOOSE r \in {[result |-> app.result,
                   heap |-> [c.heap EXCEPT ![c.objects[o].ptr] = app.st]] :
                     app \in {Robustness(c.objects[o], c.heap[c.objects[o].ptr], 1, io)}} : TRUE

\* the arguments of a call for a single constraint
CopyCallDomain == {[rob |-> <<r>>, time |-> t] : r \in RobustnessDomain, t \in TimeDomain}

InitCopies ==
    /\ \E kind \in ControllerKinds, prev0 \in UninitialisedDoubles :
          /\ kind = "Identity" => prev0 = Zero
          /\ copies = [BuildConstraint(NoCopies, kind, prev0) EXCEPT !.calls = 0]
    /\ choice = NoChoice /\ runner = NoRunner /\ ManagerConstructed
    /\ explored = NoGeneration
    /\ manager = [maximum_concurrency |-> 1, concurrency |-> 1, last |-> NoManagerCall]
    /\ sequential = NoSequential /\ ranked = NoRanked
    /\ ScoreRest /\ CSRest /\ RunnerRest

CopiesFrame ==
    /\ UNCHANGED <<choice, runner, calls, data_mutex, exploration, explored>>
    /\ UNCHANGED <<manager, sequential, ranked>>
    /\ UNCHANGED scoreVars /\ UNCHANGED csVars /\ UNCHANGED runnerVars

\* the builder builds another Constraint
BuildCall ==
    /\ Len(copies.objects) < MaxCopies
    /\ \E kind \in ControllerKinds, prev0 \in UninitialisedDoubles :
          /\ kind = "Identity" => prev0 = Zero
          /\ copies' = BuildConstraint(copies, kind, prev0)
    /\ CopiesFrame

\* an object is copied
CopyCall ==
    /\ Len(copies.objects) < MaxCopies
    /\ \E o \in DOMAIN copies.objects : copies' = CopyConstraint(copies, o)
    /\ CopiesFrame

\* robustness is called on an object
RobustnessCall ==
    /\ copies.calls < MaxOps
    /\ \E o \in DOMAIN copies.objects, io \in CopyCallDomain :
          \E r \in {RobustnessOf(copies, o, io)} :
              copies' = [copies EXCEPT !.heap = r.heap, !.calls = @ + 1]
    /\ CopiesFrame

NextCopies == BuildCall \/ CopyCall \/ RobustnessCall

SpecCopies == InitCopies /\ [][NextCopies]_vars

\* C26: a call of robustness on one Constraint object changes the value that
\* robustness returns on at most one object, the one it was called on: every
\* other copy returns on any arguments what it would have returned before.
C26_CopiesHaveIndependentControllers ==
    [][copies'.calls = copies.calls + 1 =>
          \E o \in DOMAIN copies.objects :
              \A b \in DOMAIN copies.objects \ {o} : \A io \in CopyCallDomain :
                  RobustnessOf(copies', b, io).result = RobustnessOf(copies, b, io).result]_vars

-----------------------------------------------------------------------------
(* SpecSequential: SequentialRunner::push and pull (task_runner.tpl.hpp)     *)

\* TaskRankingSpace::failed_critical_constraints(input, output): the CRITICAL
\* parameters whose rank is beyond the threshold
FailedCriticalConstraints(sp, output) ==
    {k \in DOMAIN sp :
        /\ sp[k].severity = "CRITICAL"
        /\ \/ sp[k].optimisation = "MINIMISE" /\ output[k] > sp[k].threshold
           \/ sp[k].optimisation = "MAXIMISE" /\ output[k] < sp[k].threshold}

\* how a call of _task->run ends: it throws, or it returns an output
RunOutcomes ==
    {[threw |-> TRUE, output |-> <<>>]} \cup {[threw |-> FALSE, output |-> o] : o \in OutputDomain}

\* a variant of push that stores the output before it checks the constraints
SequentialPushStoresFirst(s, run) ==
    IF run.threw
    THEN [s EXCEPT !.op = "push", !.threw = "run", !.ran = <<>>]
    ELSE IF FailedCriticalConstraints(s.space, run.output) # {}
    THEN [s EXCEPT !.last_output = <<run.output>>,
                   !.op = "push", !.threw = "critical", !.ran = run.output]
    ELSE [s EXCEPT !.last_output = <<run.output>>,
                   !.op = "push", !.threw = "none", !.ran = run.output]

\* SequentialRunner::push(input), on the outcome of the task's run: an
\* exception of run leaves push at once, a critical failure throws
\* CriticalRankingFailureException, and only then _last_output is reset.
\* The fields threw and ran tell how the last push ended.
SequentialPush(s, run) ==
    IF run.threw
    THEN [s EXCEPT !.op = "push", !.threw = "run", !.ran = <<>>]
    ELSE IF FailedCriticalConstraints(s.space, run.output) # {}
    THEN [s EXCEPT !.op = "push", !.threw = "critical", !.ran = run.output]
    ELSE [s EXCEPT !.last_output = <<run.output>>,
                   !.op = "push", !.threw = "none", !.ran = run.output]

\* SequentialRunner::pull(): *_last_output; with no output stored it
\* dereferences a null pointer, which is undefined.  The field returned is
\* what the last pull returned.
SequentialPull(s) ==
    IF s.last_output = <<>>
    THEN {[s EXCEPT !.op = "undefined", !.returned = r] : r \in {<<>>} \cup OutputDomain}
    ELSE {[s EXCEPT !.op = "pull", !.returned = s.last_output[1]]}

\* the ranking spaces of the task of a SequentialRunner: those of the search
\* runner, and one whose CRITICAL parameter is discarded for the input
SequentialSpaces ==
    RankingSpaces \cup
        {<<RankingParameter("MINIMISE", "NONE", FALSE, 0, 1),
           Discarding(RankingParameter("MINIMISE", "CRITICAL", TRUE, 0, 1))>>}

\* SequentialRunner::SequentialRunner: _last_output is null
InitSequential ==
    /\ sequential \in {[space |-> sp, last_output |-> <<>>, pushes |-> 0, op |-> "none",
                        threw |-> "none", ran |-> <<>>, returned |-> <<>>] :
                           sp \in SequentialSpaces}
    /\ choice = NoChoice /\ runner = NoRunner /\ ManagerConstructed
    /\ explored = NoGeneration
    /\ manager = [maximum_concurrency |-> 1, concurrency |-> 1, last |-> NoManagerCall]
    /\ copies = NoCopies /\ ranked = NoRanked
    /\ ScoreRest /\ CSRest /\ RunnerRest

SequentialFrame ==
    /\ UNCHANGED <<choice, runner, calls, data_mutex, exploration, explored>>
    /\ UNCHANGED <<manager, copies, ranked>>
    /\ UNCHANGED scoreVars /\ UNCHANGED csVars /\ UNCHANGED runnerVars

SequentialPushCall ==
    /\ sequential.op # "undefined"
    /\ sequential.pushes < MaxIterations
    /\ \E run \in RunOutcomes :
          sequential' = [SequentialPush(sequential, run) EXCEPT !.pushes = @ + 1]
    /\ SequentialFrame

SequentialPullCall ==
    /\ sequential.op # "undefined"
    /\ sequential' \in SequentialPull(sequential)
    /\ SequentialFrame

NextSequential == SequentialPushCall \/ SequentialPullCall

SpecSequential == InitSequential /\ [][NextSequential]_vars

\* C27: a push that throws, in the task's run or on a critical failure,
\* leaves the stored output as it was; a push that returns stores the output
\* of its run; and pull returns the stored output, that is the output of the
\* most recent push that returned, and leaves it stored.
C27_PullReturnsLastCompletedPush ==
    [][/\ (sequential'.pushes = sequential.pushes + 1 /\ sequential'.threw # "none")
            => sequential'.last_output = sequential.last_output
       /\ (sequential'.pushes = sequential.pushes + 1 /\ sequential'.threw = "none")
            => sequential'.last_output = <<sequential'.ran>>
       /\ (sequential'.pushes = sequential.pushes /\ sequential' # sequential
           /\ sequential.last_output # <<>>)
            => /\ sequential'.op = "pull"
               /\ sequential'.returned = sequential.last_output[1]
               /\ sequential'.last_output = sequential.last_output]_vars

\* C27, witness: pull has returned the output of the first push, after a
\* second push that threw on a critical failure of another output
C27_Witness ==
    /\ sequential.op = "pull"
    /\ sequential.pushes = 2
    /\ sequential.threw = "critical"
    /\ sequential.returned # sequential.ran
    /\ sequential.last_output = <<sequential.returned>>

-----------------------------------------------------------------------------
(* SpecRanking: TaskExecutionRanking::operator< on two rankings              *)
(* (task_execution_ranking.cpp)                                              *)

\* the failure counts of the rankings drawn are in 0 .. MaxFailures
MaxFailures == 1

\* the rankings drawn: two points, scores below, at and above zero and a
\* score that is not a number
RankingDomain ==
    {TaskExecutionRanking(p, sc, pf, cf) :
        p \in 0 .. 1, sc \in {OfInt(-1), Zero, OfInt(1), NaN},
        pf \in 0 .. MaxFailures, cf \in 0 .. MaxFailures}

InitRanking ==
    /\ ranked \in {[kind |-> "drawn", a |-> a, b |-> b, less |-> FALSE] :
                      a \in RankingDomain, b \in RankingDomain}
    /\ choice = NoChoice /\ runner = NoRunner /\ ManagerConstructed
    /\ explored = NoGeneration
    /\ manager = [maximum_concurrency |-> 1, concurrency |-> 1, last |-> NoManagerCall]
    /\ copies = NoCopies /\ sequential = NoSequential
    /\ ScoreRest /\ CSRest /\ RunnerRest

\* a < b is evaluated
RankingLessCall ==
    /\ ranked.kind = "drawn"
    /\ ranked' = [ranked EXCEPT !.kind = "compared", !.less = RankingLess(ranked.a, ranked.b)]
    /\ UNCHANGED <<choice, runner, calls, data_mutex, exploration, explored>>
    /\ UNCHANGED <<manager, copies, sequential>>
    /\ UNCHANGED scoreVars /\ UNCHANGED csVars /\ UNCHANGED runnerVars

SpecRanking == InitRanking /\ [][RankingLessCall]_vars

\* C29: a < b holds exactly when a has more critical failures than b, or as
\* many critical and more permissive failures, or the same failure counts
\* and a strictly lower score; the points take no part in it.
C29_FailuresThenScore ==
    ranked.kind = "compared" =>
        (ranked.less <=>
            \/ ranked.a.critical_failures > ranked.b.critical_failures
            \/ /\ ranked.a.critical_failures = ranked.b.critical_failures
               /\ ranked.a.permissive_failures > ranked.b.permissive_failures
            \/ /\ ranked.a.critical_failures = ranked.b.critical_failures
               /\ ranked.a.permissive_failures = ranked.b.permissive_failures
               /\ DLess(ranked.a.score, ranked.b.score))

\* C29, witness: of two rankings with equal failure counts and equal scores,
\* the one of the lesser point is not less than the other
C29_Witness ==
    /\ ranked.kind = "compared"
    /\ ranked.a.critical_failures = ranked.b.critical_failures
    /\ ranked.a.permissive_failures = ranked.b.permissive_failures
    /\ DEq(ranked.a.score, ranked.b.score)
    /\ ranked.a.point < ranked.b.point
    /\ ~ranked.less

-----------------------------------------------------------------------------
(* Claims on the order of Scores by their failures (SpecScore) *)

\* C30: a Score with strictly fewer hard failures than another is less than
\* it; with equal sets of hard failures, the one with strictly fewer soft
\* failures is less; with both sets equal, the one with the smaller
\* objective is less.
C30_FewerFailuresIsLess ==
    cmp.phase # "drawn" =>
        /\ Cardinality(sa.hard_failures) < Cardinality(sb.hard_failures) => cmp.lt
        /\ (/\ sa.hard_failures = sb.hard_failures
            /\ Cardinality(sa.soft_failures) < Cardinality(sb.soft_failures)) => cmp.lt
        /\ (/\ sa.hard_failures = sb.hard_failures
            /\ sa.soft_failures = sb.soft_failures
            /\ DLess(sa.objective, sb.objective)) => cmp.lt

-----------------------------------------------------------------------------
(* SpecGroups: a ConstrainingSpecification of three constraints, so that a   *)
(* group can be deactivated while a constraint of another group is active    *)

\* the number of constraints of the lists of SpecGroups
MaxGrouped == 3

\* ConstrainingSpecification(constraints) for a list of MaxGrouped constraints
\* with identity controllers
InitGroups ==
    /\ constraints \in FlagLists(MaxGrouped)
    /\ states = [k \in 1 .. Len(constraints) |-> ConstraintState]
    /\ num_active = Len(constraints)
    /\ controllers = [k \in 1 .. Len(constraints) |-> ControllerInit(Zero)]
    /\ last = NoCall
    /\ ops = 0
    /\ ScoreRest
    /\ RunnerRest
    /\ ManagerRest

SpecGroups == InitGroups /\ [][NextCS]_vars

\* the state at position k went inactive with its group, and has neither
\* succeeded nor failed
DeactivatedThroughGroup(k) ==
    ~states[k].active /\ ~states[k].success /\ ~states[k].failure

\* the Score that the call of this step computed does not mention index k-1
\* and does not depend on the value of the k-th constraint's function
NotScored(k) ==
    /\ (k - 1) \notin (last'.score.successes \cup last'.score.hard_failures
                          \cup last'.score.soft_failures)
    /\ \A v \in RobustnessDomain :
          Evaluate(constraints, states, num_active, controllers,
                   [last'.io EXCEPT !.rob[k] = v]).score = last'.score

\* C31: a constraint deactivated through its group without itself succeeding
\* or failing is not scored by any later call (it is in no index set of the
\* Score and does not add to the objective), and no later update_from marks
\* it succeeded or failed.
C31_InactiveNotScored ==
    [][(ops' = ops + 1 /\ ~last'.failed) =>
          \A k \in DOMAIN states :
              DeactivatedThroughGroup(k) =>
                  /\ NotScored(k)
                  /\ ~states'[k].success
                  /\ ~states'[k].failure]_vars

-----------------------------------------------------------------------------
(* Claims on evaluate's classification (SpecCS) *)

\* the state at position k is one that evaluate scores
Scored(k) == ~states[k].success /\ ~states[k].failure

\* the robustness that the call of this step computed for the k-th constraint
ScoredRobustness(k) == Robustness(constraints[k], controllers[k], k, last'.io).result

\* r >= 0 on doubles
DGeq(x, y) == DLess(y, x) \/ DEq(x, y)

\* C32: evaluate puts the index i of a scored constraint with robustness r in
\* hard_failures only if r < 0 and the kind is HARD, in soft_failures only if
\* r < 0 and the kind is SOFT, in no set if r < 0 and the kind is NONE, and in
\* successes only if r >= 0 (zero included); the three sets of a Score are
\* pairwise disjoint.
C32_OnePlacePerConstraint ==
    [][(ops' = ops + 1 /\ ~last'.failed) =>
          LET sc == last'.score
          IN  /\ sc.successes \cap sc.hard_failures = {}
              /\ sc.successes \cap sc.soft_failures = {}
              /\ sc.hard_failures \cap sc.soft_failures = {}
              /\ \A k \in DOMAIN states :
                    Scored(k) =>
                        LET r == ScoredRobustness(k)
                            i == k - 1
                            kind == constraints[k].failure_kind
                        IN  /\ (DLess(r, Zero) /\ kind = "HARD") =>
                                  (i \in sc.hard_failures /\ i \notin sc.soft_failures
                                      /\ i \notin sc.successes)
                            /\ (DLess(r, Zero) /\ kind = "SOFT") =>
                                  (i \in sc.soft_failures /\ i \notin sc.hard_failures
                                      /\ i \notin sc.successes)
                            /\ (DLess(r, Zero) /\ kind = "NONE") =>
                                  (i \notin sc.soft_failures /\ i \notin sc.hard_failures
                                      /\ i \notin sc.successes)
                            /\ DGeq(r, Zero) =>
                                  (i \in sc.successes /\ i \notin sc.hard_failures
                                      /\ i \notin sc.soft_failures)]_vars

\* evaluate returned a Score with a HARD constraint of negative robustness in
\* hard_failures and a constraint of robustness zero in successes
C32_Witness ==
    /\ last.op = "evaluate" /\ ~last.failed
    /\ Len(constraints) = 2
    /\ constraints[1].failure_kind = "HARD" /\ constraints[1].controller = "Identity"
    /\ constraints[2].controller = "Identity"
    /\ last.io.rob = <<-1, 0>>
    /\ last.score.hard_failures = {0}
    /\ last.score.successes = {1}
    /\ last.score.soft_failures = {}

-----------------------------------------------------------------------------
(* Claims on what update_from changes (SpecCS) *)

\* in the update_from of this step the constraint at position i flags its
\* group: it succeeds with the action DEACTIVATE, or it fails hard
Flags(i) ==
    \/ (i - 1) \in last'.score.successes /\ constraints[i].success_action = "DEACTIVATE"
    \/ (i - 1) \in last'.score.hard_failures

\* the positions whose group is flagged when the loop of update_from visits
\* them: the ones the call deactivates, lowering the counter once for each
Deactivated ==
    {j \in DOMAIN states :
        \E i \in 1 .. j : Flags(i) /\ constraints[i].group_id = constraints[j].group_id}

\* this step is a call of update_from that returned
UpdateFromReturns == ops' = ops + 1 /\ last'.op = "update_from" /\ ~last'.failed

ScoredByNextEvaluation(k) ==
    \A io \in CallDomain(constraints) :
        io.rob[k] = 0 =>
            \E e \in {Evaluate(constraints, states', num_active', controllers', io)} :
                ~e.failed =>
                    (k - 1) \in (e.score.successes \cup e.score.soft_failures
                                    \cup e.score.hard_failures)

-----------------------------------------------------------------------------
(* Claims on the accounting of one iteration (SpecRunner) *)

\* the predicate of the wait of pull
PullWaitCondition == Len(output_buffer) >= Concurrency - failures

\* C33: inside pull, whenever the wait condition holds (and so when the wait
\* has been passed) the outputs queued and the failures counted number
\* exactly K and no work item is queued or being run; while pull is past the
\* wait no worker changes the failure counter, and when pull has drained the
\* queue, the queue is empty and the counter is zero, which they stay until
\* the next push.
C33_WaitPassesOnAllFinished ==
    /\ [](failures <= Concurrency)
    /\ []((InPullWait /\ PullWaitCondition) =>
             (Len(output_buffer) + failures = Concurrency /\ Pending = 0))
    /\ [](rpc = "pull_body" =>
             (Len(output_buffer) + failures = Concurrency /\ Pending = 0))
    /\ []((rpc = "idle" /\ iter > 0) => (output_buffer = <<>> /\ failures = 0))
    /\ [][(rpc = "pull_body" /\ rpc' = "pull_body") => failures' = failures]_vars
    /\ [][(rpc = "pull_body" /\ rpc' # "pull_body") =>
             (output_buffer' = <<>> /\ failures' = 0)]_vars

\* pull has returned from an iteration in which one task run threw: it drained
\* the one output, and the queue and the counter are clear
C33_Witness ==
    /\ rpc = "idle" /\ pulled.kind = "output"
    /\ Len(pulled.drained) = Concurrency - 1
    /\ output_buffer = <<>> /\ failures = 0


\* C34: while push dequeues, the FIFO of pending points holds one point for
\* each work item still to be queued (K when it starts, after the seeding of
\* the first push and after every pull), so push never takes the front of an
\* empty FIFO; the FIFO is empty when push has returned, and holds K points
\* again when pull has, also after an iteration in which task runs threw.
C34_PendingPointsNumberK ==
    /\ rpc = "pushing" => Len(points) = Concurrency - npushed
    /\ (InPullWait \/ rpc = "pull_body") => points = <<>>
    /\ (rpc = "idle" /\ iter > 0) => Len(points) = Concurrency
    /\ rpc = "undefined" => pulled.kind = "undefined"

\* the second push has queued its K work items from the points that the pull
\* before it left, and the FIFO is empty
C34_Witness ==
    /\ iter = 2 /\ rpc = "pushing" /\ npushed = Concurrency
    /\ points = <<>>
    /\ Len(best_rankings) = 1

-----------------------------------------------------------------------------
(* Claims that compare the two runners (SpecSequential) *)

\* critical_failures of the ranking that TaskRankingSpace::rank gives an
\* output, ranked alone
RankedCriticalFailures(sp, output) ==
    Rank(sp, <<[point |-> 0, output |-> output]>>)[1].critical_failures

\* C39: a push of the SequentialRunner whose run returns an output throws the
\* critical-failure exception exactly when rank gives that output a number of
\* critical failures above zero, also when a CRITICAL parameter is discarded
\* for the input.
C39_RunnersAgreeOnCriticalFailure ==
    [][(sequential'.pushes = sequential.pushes + 1 /\ sequential'.threw # "run") =>
          (sequential'.threw = "critical"
              <=> RankedCriticalFailures(sequential.space, sequential'.ran) > 0)]_vars

-----------------------------------------------------------------------------
(* Claims on the critical-failure exception of pull (SpecRunner) *)

\* the results that the last pull drained and that have no critical failure
WithoutCriticalFailure ==
    {i \in DOMAIN pulled.drained : Errors(space, pulled.drained[i], "CRITICAL") = 0}

\* C36: pull throws the critical-failure exception only when every result of
\* the iteration has a critical failure; when some result has none, pull
\* returns the output of a result that has none; and a pull that throws
\* appends nothing to the history of the TaskManager.
C36_CriticalOnlyWhenAllFail ==
    /\ [](pulled.kind = "critical" => WithoutCriticalFailure = {})
    /\ []((pulled.kind \in {"output", "critical"} /\ WithoutCriticalFailure # {}) =>
             /\ pulled.kind = "output"
             /\ \E i \in WithoutCriticalFailure :
                   /\ pulled.drained[i].point = pulled.point
                   /\ pulled.drained[i].output = pulled.output)
    /\ [][(pulled'.kind = "critical" /\ pulled.kind # "critical") =>
             best_rankings' = best_rankings]_vars

\* pull has returned an output on two results of which one has a critical
\* failure
C36_Witness ==
    /\ rpc = "idle" /\ pulled.kind = "output"
    /\ space[2].severity = "CRITICAL"
    /\ Len(pulled.drained) = 2
    /\ Cardinality(WithoutCriticalFailure) = 1


\* C37: from the return of push to the end of the matching pull the work
\* items queued, the items being run, the outputs queued and the failures
\* counted number K; no two workers run the same (input, point) pair; and no
\* worker calls pull on the input queue while it is empty.
C37_EachPairOneWorkerOneOutcome ==
    /\ (InPullWait \/ rpc = "pull_body") =>
          Pending + Len(output_buffer) + failures = Concurrency
    /\ \A v, w \in Workers :
          (v # w /\ wpc[v] = "run" /\ wpc[w] = "run") => wpkg[v] # wpkg[w]
    /\ \A w \in Workers : wpc[w] = "pull" => input_buffer # <<>>

-----------------------------------------------------------------------------
(* SpecRunnable: a TaskRunnable under set_constraints, and the constraining  *)
(* state of the task of the runner it holds                                  *)

\* The variables of the ConstrainingSpecification stand for the one of the
\* installed runner's task: TaskRunnerBase makes a new task for every runner,
\* and the task's set_constraints builds its ConstrainingSpecification from
\* the list.

\* the lists handed to set_constraints: the empty one, and the lists of up to
\* MaxConstraints constraints of one group that fail hard (any success action)
RunnableLists ==
    UNION {{list \in FlagLists(n) :
               \A k \in 1 .. n : list[k].failure_kind = "HARD" /\ list[k].group_id = 0} :
           n \in 0 .. MaxConstraints}

\* TaskRunnable::set_constraints(list): the call of
\* TaskManager::choose_runner_for(runnable, list, initial_point) it delegates
\* to, at the initial point of the search space
SetConstraints(cfg, list, concurrency) ==
    ChooseRunnerForConstraints(cfg, list, SearchSpaceInitialPoint, concurrency)

\* a variant of the call that keeps the constraining state of the runner it
\* replaces
KeepsConstrainingState(list, sts, n) == [states |-> sts, num |-> n]

\* the ConstrainingSpecification of the task of a new runner after
\* runner->task().set_constraints(list)
NewConstrainingState(list, sts, n) ==
    [states |-> [k \in 1 .. Len(list) |-> ConstraintState], num |-> Len(list)]

\* TaskRunnable::TaskRunnable(configuration): choose_runner_for(*this), whose
\* runner has a task without constraints
InitRunnable ==
    /\ \E cfg \in Configurations, c \in 1 .. MaxAvailable :
          /\ choice = [overload |-> 1, cfg |-> cfg, constraints |-> <<>>,
                       initial_point |-> SearchSpaceInitialPoint, concurrency |-> c,
                       thrown |-> FALSE, replaced |-> <<>>]
          /\ runner = ChooseRunnerFor(cfg).runner
    /\ ManagerConstructed
    /\ explored = NoGeneration
    /\ OtherRest
    /\ ScoreRest /\ CSRest /\ RunnerRest

\* a call of set_constraints(list) on the runnable; the field replaced keeps
\* the constraint states of the task that was installed when it was made
SetConstraintsCall ==
    /\ \E list \in RunnableLists :
          \E r \in {SetConstraints(choice.cfg, list, choice.concurrency)} :
              /\ choice' = [choice EXCEPT !.overload = 2, !.constraints = list,
                                          !.thrown = r.thrown, !.replaced = states]
              /\ IF r.thrown
                 THEN UNCHANGED <<runner, constraints, states, num_active, controllers, last>>
                 ELSE /\ runner' = r.runner
                      /\ constraints' = list
                      /\ \E cst \in {NewConstrainingState(list, states, num_active)} :
                            states' = cst.states /\ num_active' = cst.num
                      /\ controllers' = [k \in 1 .. Len(list) |-> ControllerInit(Zero)]
                      /\ last' = NoCall
    /\ UNCHANGED ops
    /\ UNCHANGED <<calls, data_mutex, exploration, explored>> /\ UNCHANGED otherVars
    /\ UNCHANGED scoreVars /\ UNCHANGED runnerVars

NextRunnable == SetConstraintsCall \/ UpdateFromCall

SpecRunnable == InitRunnable /\ [][NextRunnable]_vars

\* this step is a call of set_constraints (a call of update_from counts in ops)
SetConstraintsStep == choice'.overload = 2 /\ ops' = ops

\* the task of the installed runner holds the list of the last call, every
\* state active and neither succeeded nor failed
HoldsFresh(list) ==
    /\ runner'.constraints = list
    /\ constraints' = list
    /\ states' = [k \in 1 .. Len(list) |-> ConstraintState]
    /\ num_active' = Len(list)

=============================================================================
